---- MODULE Spec2Model ----
(***************************************************************************)
(* BitTorrent peer sessions (torrent_client/network/peer_tcp_client.py)    *)
(* as state machines: the handshake, the receive loop of run() with one    *)
(* action per segment between two awaits, the am_choking / am_interested   *)
(* setters, and the block path of _handle_block under the file-store lock. *)
(*                                                                         *)
(*   SpecHandshake  one session from construction to connected or failed   *)
(*   SpecSession    one connected session receiving frames                 *)
(*   SpecStore      two connected sessions receiving blocks, one validator *)
(***************************************************************************)
EXTENDS Integers, Sequences, FiniteSets, TLC

VARIABLES
    client,          \* peer -> the fields of its PeerTCPClient
    download_info,   \* the DownloadInfo shared by the sessions of one torrent
    statistics,      \* download_info.session_statistics
    file_structure,  \* the FileStructure: its lock and what was written
    hs,              \* peer -> what the handshake received and advertised (history)
    out,             \* what the last step wrote to writers: <<peer, write>>
    err,             \* the exception the last step raised, or NoError
    manager,         \* the TorrentManager: where run() and stop() are, its tasks
    tracker          \* the UDP tracker server: its storage, torrents and clock

vars == <<client, download_info, statistics, file_structure, hs, out, err, manager,
          tracker>>

-----------------------------------------------------------------------------
(* Program constants                                                       *)

MAX_MESSAGE_LENGTH == 262144
MAX_REQUEST_LENGTH == 131072
HANDSHAKE_LEN == 19
HANDSHAKE_NAME == "BitTorrent protocol"

(* Bounds and the torrent the sessions serve                               *)

PieceCount == 2
MaxTransferBlocks == 2
MaxWrites == 3
BlockSize == 16384

piece_count == PieceCount
piece_length == 2 * MAX_REQUEST_LENGTH
LastPieceLength == MAX_REQUEST_LENGTH + BlockSize
total_size == (piece_count - 1) * piece_length + LastPieceLength
MaxTransfer == MaxTransferBlocks * MAX_REQUEST_LENGTH

PieceIndices == 0 .. (piece_count - 1)

OurPeerId == "id_us"
OurInfoHash == "ih_ours"
NoPeerId == "None"
NoError == "none"

\* No BlockRequest: the handler's local `request` outside the handler
NoRequest == <<0, 0, 0>>

Min(a, b) == IF a <= b THEN a ELSE b

CeilDiv(a, b) == (a + b - 1) \div b

get_real_piece_length(i) ==
    IF i = piece_count - 1 THEN total_size - i * piece_length ELSE piece_length

-----------------------------------------------------------------------------
(* Wire encodings                                                          *)

\* struct.pack('!I', n): four bytes, most significant first
PackI(n) ==
    << (n \div 16777216) % 256, (n \div 65536) % 256, (n \div 256) % 256, n % 256 >>

\* struct.unpack('!I', b) of the four bytes of b starting at position k
UnpackIAt(b, k) ==
    b[k] * 16777216 + b[k + 1] * 65536 + b[k + 2] * 256 + b[k + 3]

\* MessageType(data[0]): the enum member of a message id, "unknown" for ValueError
MessageType(id) ==
    CASE id = 0 -> "choke"
      [] id = 1 -> "unchoke"
      [] id = 2 -> "interested"
      [] id = 3 -> "not_interested"
      [] id = 4 -> "have"
      [] id = 5 -> "bitfield"
      [] id = 6 -> "request"
      [] id = 7 -> "piece"
      [] id = 8 -> "cancel"
      [] id = 9 -> "port"
      [] OTHER -> "unknown"

\* bit i (0-based) of bitarray(endian='big').frombytes(bytes)
BitOf(bytes, i) ==
    (bytes[(i \div 8) + 1] \div (2 ^ (7 - (i % 8)))) % 2 = 1

\* bitarray(flags, endian='big').tobytes(): zero padded to whole bytes
RECURSIVE ByteOfBits(_, _, _)
ByteOfBits(flags, first, k) ==
    IF k = 8 THEN 0
    ELSE (IF first + k \in DOMAIN flags /\ flags[first + k] THEN 2 ^ (7 - k) ELSE 0)
         + ByteOfBits(flags, first, k + 1)

ToBytes(flags) ==
    [j \in 1 .. CeilDiv(Cardinality(DOMAIN flags), 8) |-> ByteOfBits(flags, (j - 1) * 8, 0)]

\* A received frame: the length prefix, then (when read) the id byte, the
\* leading payload bytes and the number of block bytes that follow them.
Frame(id, head, blob) ==
    [length |-> 1 + Len(head) + blob, id |-> id, head |-> head, blob |-> blob]

KeepAlive == [length |-> 0, id |-> 0, head |-> <<>>, blob |-> 0]

PayloadLen(f) == Len(f.head) + f.blob

\* What a session writes: a handshake part or a frame of _send_message
Written(type, words) == [type |-> type, words |-> words, info_hash |-> "", peer_id |-> ""]

WrittenInfo(ih, pid) == [type |-> "info", words |-> <<>>, info_hash |-> ih, peer_id |-> pid]

-----------------------------------------------------------------------------
(* State after construction                                                *)

\* A constructor that starts unchoked
NewClientUnchoked(expected_peer_id) ==
    [ peer_id         |-> expected_peer_id,
      piece_owned     |-> <<>>,
      am_choking      |-> FALSE,
      am_interested   |-> FALSE,
      peer_choking    |-> TRUE,
      peer_interested |-> FALSE,
      downloaded      |-> 0,
      uploaded        |-> 0,
      writer          |-> "none",
      connected       |-> FALSE,
      pc              |-> "new",
      last            |-> "none",
      seen_have       |-> FALSE,
      request         |-> NoRequest ]

\* PeerTCPClient.__init__ for a peer whose peer_id the tracker gave (or not)
NewClient(expected_peer_id) ==
    [ peer_id         |-> expected_peer_id,
      piece_owned     |-> <<>>,
      am_choking      |-> TRUE,
      am_interested   |-> FALSE,
      peer_choking    |-> TRUE,
      peer_interested |-> FALSE,
      downloaded      |-> 0,
      uploaded        |-> 0,
      writer          |-> "none",
      connected       |-> FALSE,
      pc              |-> "new",
      last            |-> "none",
      seen_have       |-> FALSE,
      request         |-> NoRequest ]

\* One piece of DownloadInfo.pieces
NewPiece(is_downloaded) ==
    [ selected   |-> TRUE,
      downloaded |-> is_downloaded,
      validating |-> FALSE,
      blocks     |-> {},
      owners     |-> {} ]

\* A DownloadInfo whose pieces in have are verified on disk
NewDownloadInfo(have) ==
    [ pieces                 |-> [i \in PieceIndices |-> NewPiece(i \in have)],
      interesting_pieces     |-> PieceIndices \ have,
      downloaded_piece_count |-> Cardinality(have),
      complete               |-> (have = PieceIndices) ]

NewStatistics == [total_downloaded |-> 0, total_uploaded |-> 0]

NewFileStructure == [lock |-> "free", written |-> {}, writes |-> 0]

NewHandshake(expected_peer_id) ==
    [ direction |-> "none",
      expected  |-> expected_peer_id,
      pstrlen   |-> 0,
      pstr      |-> "",
      info_hash |-> "",
      peer_id   |-> "",
      bitfield  |-> << >> ]

Peers == DOMAIN client

-----------------------------------------------------------------------------
(* Handshake                                                               *)

\* _send_protocol_data
send_protocol_data == Written("protocol", <<>>)

\* What _send_bitfield writes for a DownloadInfo: a bitfield frame, only
\* when downloaded_piece_count is not zero
bitfield_of(di) ==
    IF di.downloaded_piece_count # 0
    THEN << Written("bitfield",
                    ToBytes([i \in PieceIndices |-> di.pieces[i].downloaded])) >>
    ELSE << >>

\* _send_bitfield
send_bitfield == bitfield_of(download_info)

\* _populate_info: the fields it sets
populate_info(c) ==
    [c EXCEPT !.piece_owned = [i \in PieceIndices |-> FALSE]]

\* reader.readexactly under wait_for: what the await can give
ReadOk(data) == [status |-> "ok", data |-> data]
ReadFailures(data) == {[status |-> "timeout", data |-> data], [status |-> "incomplete", data |-> data]}

ProtocolResponses ==
    { [pstrlen |-> HANDSHAKE_LEN, pstr |-> HANDSHAKE_NAME, reserved |-> "zero"],
      [pstrlen |-> HANDSHAKE_LEN, pstr |-> HANDSHAKE_NAME, reserved |-> "extensions"],
      [pstrlen |-> HANDSHAKE_LEN, pstr |-> "BitTorrent protocoX", reserved |-> "zero"],
      [pstrlen |-> HANDSHAKE_LEN - 1, pstr |-> HANDSHAKE_NAME, reserved |-> "zero"] }

InfoResponses ==
    [info_hash : {OurInfoHash, "ih_other"}, peer_id : {OurPeerId, "id_a", "id_b"}]

ProtocolReads ==
    {ReadOk(d) : d \in ProtocolResponses}
        \cup ReadFailures([pstrlen |-> 0, pstr |-> "", reserved |-> "zero"])

InfoReads ==
    {ReadOk(d) : d \in InfoResponses} \cup ReadFailures([info_hash |-> "", peer_id |-> ""])

\* _receive_protocol_data: the exception it raises, NoError when it returns
receive_protocol_data(r) ==
    IF r.status = "timeout" THEN "TimeoutError"
    ELSE IF r.status = "incomplete" THEN "IncompleteReadError"
    ELSE IF r.data.pstrlen # HANDSHAKE_LEN \/ r.data.pstr # HANDSHAKE_NAME
         THEN "ValueError: Unknown protocol"
    ELSE NoError

\* A _receive_info without the check for a connection to ourselves
receive_info_no_self_check(c, r) ==
    IF r.status = "timeout" THEN "TimeoutError"
    ELSE IF r.status = "incomplete" THEN "IncompleteReadError"
    ELSE IF c.peer_id # NoPeerId /\ c.peer_id # r.data.peer_id
         THEN "ValueError: Unexpected peer_id"
    ELSE NoError

\* _receive_info: the exception it raises, NoError when it returns
receive_info(c, r) ==
    IF r.status = "timeout" THEN "TimeoutError"
    ELSE IF r.status = "incomplete" THEN "IncompleteReadError"
    ELSE IF OurPeerId = r.data.peer_id THEN "ValueError: Connection to ourselves"
    ELSE IF c.peer_id # NoPeerId /\ c.peer_id # r.data.peer_id
         THEN "ValueError: Unexpected peer_id"
    ELSE NoError

\* close()
close(c) ==
    [c EXCEPT !.writer = IF c.writer = "none" THEN "none" ELSE "closed",
              !.connected = FALSE]

\* connect(): open_connection, then the handshake we write first
Connect(p, opened) ==
    /\ client[p].pc = "new"
    /\ IF opened
       THEN /\ client' = [client EXCEPT ![p] =
                    [populate_info(client[p]) EXCEPT !.writer = "open",
                                                     !.pc = "connect_protocol"]]
            /\ out' = << <<p, send_protocol_data>>,
                         <<p, WrittenInfo(OurInfoHash, OurPeerId)>> >>
            /\ err' = NoError
       ELSE /\ client' = [client EXCEPT ![p].pc = "failed"]
            /\ out' = << >>
            /\ err' = "ConnectionError"
    /\ hs' = [hs EXCEPT ![p].direction = "connect"]
    /\ UNCHANGED <<download_info, statistics, file_structure>>

\* connect(): await _receive_protocol_data()
ConnectReceiveProtocol(p, r) ==
    /\ client[p].pc = "connect_protocol"
    /\ LET e == receive_protocol_data(r) IN
       /\ err' = e
       /\ client' = [client EXCEPT ![p] =
              IF e = NoError THEN [client[p] EXCEPT !.pc = "connect_info"]
              ELSE [close(client[p]) EXCEPT !.pc = "failed"]]
    /\ hs' = [hs EXCEPT ![p].pstrlen = r.data.pstrlen, ![p].pstr = r.data.pstr]
    /\ out' = << >>
    /\ UNCHANGED <<download_info, statistics, file_structure>>

\* connect(): await _receive_info(), the info_hash comparison, _send_bitfield
ConnectReceiveInfo(p, r) ==
    /\ client[p].pc = "connect_info"
    /\ LET e == receive_info(client[p], r)
           mismatch == e = NoError /\ r.data.info_hash # OurInfoHash
           known == IF e = NoError
                    THEN [client[p] EXCEPT !.peer_id = r.data.peer_id]
                    ELSE client[p]
       IN
       /\ err' = IF mismatch THEN "ValueError: info_hashes don't match" ELSE e
       /\ client' = [client EXCEPT ![p] =
              IF e = NoError /\ ~mismatch
              THEN [known EXCEPT !.connected = TRUE, !.pc = "run"]
              ELSE [close(known) EXCEPT !.pc = "failed"]]
       /\ out' = IF e = NoError /\ ~mismatch
                 THEN [k \in 1 .. Len(send_bitfield) |-> <<p, send_bitfield[k]>>]
                 ELSE << >>
    /\ hs' = [hs EXCEPT ![p].info_hash = r.data.info_hash, ![p].peer_id = r.data.peer_id,
                        ![p].bitfield = IF receive_info(client[p], r) = NoError
                                           /\ r.data.info_hash = OurInfoHash
                                        THEN send_bitfield ELSE << >>]
    /\ UNCHANGED <<download_info, statistics, file_structure>>

\* An accept() that writes our info_hash and peer_id with the header
AcceptSendingInfo(p) ==
    /\ client[p].pc = "new"
    /\ client' = [client EXCEPT ![p].writer = "open", ![p].pc = "accept_protocol"]
    /\ hs' = [hs EXCEPT ![p].direction = "accept"]
    /\ out' = << <<p, send_protocol_data>>, <<p, WrittenInfo(OurInfoHash, OurPeerId)>> >>
    /\ err' = NoError
    /\ UNCHANGED <<download_info, statistics, file_structure>>

\* accept(): takes the streams and writes the protocol header
Accept(p) ==
    /\ client[p].pc = "new"
    /\ client' = [client EXCEPT ![p].writer = "open", ![p].pc = "accept_protocol"]
    /\ hs' = [hs EXCEPT ![p].direction = "accept"]
    /\ out' = << <<p, send_protocol_data>> >>
    /\ err' = NoError
    /\ UNCHANGED <<download_info, statistics, file_structure>>

\* accept(): await _receive_protocol_data()
AcceptReceiveProtocol(p, r) ==
    /\ client[p].pc = "accept_protocol"
    /\ LET e == receive_protocol_data(r) IN
       /\ err' = e
       /\ client' = [client EXCEPT ![p].pc = IF e = NoError THEN "accept_info" ELSE "failed"]
    /\ hs' = [hs EXCEPT ![p].pstrlen = r.data.pstrlen, ![p].pstr = r.data.pstr]
    /\ out' = << >>
    /\ UNCHANGED <<download_info, statistics, file_structure>>

\* accept(): return await _receive_info()
AcceptReceiveInfo(p, r) ==
    /\ client[p].pc = "accept_info"
    /\ LET e == receive_info(client[p], r) IN
       /\ err' = e
       /\ client' = [client EXCEPT ![p] =
              IF e = NoError
              THEN [client[p] EXCEPT !.peer_id = r.data.peer_id, !.pc = "accepted"]
              ELSE [client[p] EXCEPT !.pc = "failed"]]
    /\ hs' = [hs EXCEPT ![p].info_hash = r.data.info_hash, ![p].peer_id = r.data.peer_id]
    /\ out' = << >>
    /\ UNCHANGED <<download_info, statistics, file_structure>>

\* The acceptor hands a session to the torrent whose info_hash accept() returned
routed_here(p) == hs[p].info_hash = OurInfoHash

\* confirm_info_hash()
ConfirmInfoHash(p) ==
    /\ client[p].pc = "accepted"
    /\ routed_here(p)
    /\ client' = [client EXCEPT ![p] =
           [populate_info(client[p]) EXCEPT !.connected = TRUE, !.pc = "run"]]
    /\ out' = << <<p, WrittenInfo(OurInfoHash, OurPeerId)>> >>
                  \o [k \in 1 .. Len(send_bitfield) |-> <<p, send_bitfield[k]>>]
    /\ err' = NoError
    /\ hs' = [hs EXCEPT ![p].bitfield = send_bitfield]
    /\ UNCHANGED <<download_info, statistics, file_structure>>

\* close(), called by the owner of the session
Close(p) ==
    /\ client[p].pc # "new"
    /\ client[p].writer # "closed"
    /\ client' = [client EXCEPT ![p] =
           [close(client[p]) EXCEPT !.pc = IF client[p].pc \in {"failed", "stopped"}
                                           THEN client[p].pc ELSE "closed"]]
    /\ out' = << >>
    /\ err' = NoError
    /\ UNCHANGED <<download_info, statistics, file_structure, hs>>

-----------------------------------------------------------------------------
(* Flags                                                                   *)

\* What one synchronous stretch of a session's code leaves behind: the
\* session, the shared DownloadInfo, the frames written, the exception raised
Result(c, di, o, e) == [c |-> c, di |-> di, out |-> o, err |-> e]

\* A _check_connect that looks at the writer instead of _connected
check_connect_by_writer(c) ==
    IF c.writer = "open" THEN NoError
    ELSE "RuntimeError: Can't change state when the client isn't connected"

\* _check_connect
check_connect(c) ==
    IF c.connected THEN NoError
    ELSE "RuntimeError: Can't change state when the client isn't connected"

\* A setter that writes the frame on every assignment
set_am_choking_always_sends(c, value) ==
    IF ~c.connected
    THEN [c |-> c, di |-> download_info, out |-> << >>,
          err |-> "RuntimeError: Can't change state when the client isn't connected"]
    ELSE [c |-> [c EXCEPT !.am_choking = value], di |-> download_info,
          out |-> << Written(IF value THEN "choke" ELSE "unchoke", << >>) >>, err |-> NoError]

\* am_choking.setter
set_am_choking(c, value) ==
    IF check_connect(c) # NoError THEN Result(c, download_info, << >>, check_connect(c))
    ELSE IF c.am_choking # value
    THEN Result([c EXCEPT !.am_choking = value], download_info,
                << Written(IF value THEN "choke" ELSE "unchoke", << >>) >>, NoError)
    ELSE Result(c, download_info, << >>, NoError)

\* am_interested.setter
set_am_interested(c, value) ==
    IF check_connect(c) # NoError THEN Result(c, download_info, << >>, check_connect(c))
    ELSE IF c.am_interested # value
    THEN Result([c EXCEPT !.am_interested = value], download_info,
                << Written(IF value THEN "interested" ELSE "not_interested", << >>) >>, NoError)
    ELSE Result(c, download_info, << >>, NoError)

\* A step of session p whose synchronous stretch left r and goes on at pc
Finish(p, r, pc) ==
    /\ client' = [client EXCEPT ![p] = [r.c EXCEPT !.pc = pc]]
    /\ download_info' = r.di
    /\ out' = [k \in 1 .. Len(r.out) |-> <<p, r.out[k]>>]
    /\ err' = r.err

\* The uploader (choke controller) assigns am_choking, at any time of the
\* session's life
SetAmChoking(p, value) ==
    /\ Finish(p, set_am_choking(client[p], value), client[p].pc)
    /\ UNCHANGED <<statistics, file_structure, hs>>

\* The downloader assigns am_interested, at any time of the session's life
SetAmInterested(p, value) ==
    /\ Finish(p, set_am_interested(client[p], value), client[p].pc)
    /\ UNCHANGED <<statistics, file_structure, hs>>

-----------------------------------------------------------------------------
(* Receive dispatch                                                        *)

\* _check_payload_len
check_payload_len(f, expected_len) ==
    IF PayloadLen(f) # expected_len THEN "ValueError: Invalid payload length" ELSE NoError

\* A _handle_setting_states that takes any payload
handle_setting_states_any_payload(c, f) ==
    Result(
        CASE MessageType(f.id) = "choke" -> [c EXCEPT !.peer_choking = TRUE]
          [] MessageType(f.id) = "unchoke" -> [c EXCEPT !.peer_choking = FALSE]
          [] MessageType(f.id) = "interested" -> [c EXCEPT !.peer_interested = TRUE]
          [] MessageType(f.id) = "not_interested" -> [c EXCEPT !.peer_interested = FALSE]
          [] OTHER -> c,
        download_info, << >>, NoError)

\* _handle_setting_states
handle_setting_states(c, f) ==
    IF check_payload_len(f, 0) # NoError
    THEN Result(c, download_info, << >>, check_payload_len(f, 0))
    ELSE Result(
        CASE MessageType(f.id) = "choke" -> [c EXCEPT !.peer_choking = TRUE]
          [] MessageType(f.id) = "unchoke" -> [c EXCEPT !.peer_choking = FALSE]
          [] MessageType(f.id) = "interested" -> [c EXCEPT !.peer_interested = TRUE]
          [] MessageType(f.id) = "not_interested" -> [c EXCEPT !.peer_interested = FALSE]
          [] OTHER -> c,
        download_info, << >>, NoError)

\* A _mark_as_owner that turns interested for any piece
mark_as_owner_always_interested(p, r, piece_index) ==
    IF r.err # NoError THEN r
    ELSE IF piece_index \notin DOMAIN r.c.piece_owned
    THEN [r EXCEPT !.err = "IndexError: bitarray index out of range"]
    ELSE LET c1 == [r.c EXCEPT !.piece_owned[piece_index] = TRUE]
             di1 == [r.di EXCEPT !.pieces[piece_index].owners = @ \cup {p}]
             s == set_am_interested(c1, TRUE)
         IN  Result(s.c, di1, r.out \o s.out, s.err)

\* A _mark_as_owner that leaves the owners set of the piece alone
mark_as_owner_without_owners(p, r, piece_index) ==
    IF r.err # NoError THEN r
    ELSE IF piece_index \notin DOMAIN r.c.piece_owned
    THEN [r EXCEPT !.err = "IndexError: bitarray index out of range"]
    ELSE LET c1 == [r.c EXCEPT !.piece_owned[piece_index] = TRUE]
             s == set_am_interested(c1, TRUE)
         IN  IF piece_index \in r.di.interesting_pieces
             THEN Result(s.c, r.di, r.out \o s.out, s.err)
             ELSE Result(c1, r.di, r.out, NoError)

\* _mark_as_owner, continuing from what the stretch has done so far
mark_as_owner(p, r, piece_index) ==
    IF r.err # NoError THEN r
    ELSE IF piece_index \notin DOMAIN r.c.piece_owned
    THEN [r EXCEPT !.err = "IndexError: bitarray index out of range"]
    ELSE LET c1 == [r.c EXCEPT !.piece_owned[piece_index] = TRUE]
             di1 == [r.di EXCEPT !.pieces[piece_index].owners = @ \cup {p}]
             s == set_am_interested(c1, TRUE)
         IN  IF piece_index \in r.di.interesting_pieces
             THEN Result(s.c, di1, r.out \o s.out, s.err)
             ELSE Result(c1, di1, r.out, NoError)

\* _handle_haves, bitfield: for i in range(piece_count): if arr[i]: mark
RECURSIVE mark_bits(_, _, _, _)
mark_bits(p, r, bytes, i) ==
    IF i >= piece_count THEN r
    ELSE mark_bits(p, IF BitOf(bytes, i) THEN mark_as_owner(p, r, i) ELSE r, bytes, i + 1)

\* A bitfield handler that never looks at the spare bits
spare_bits_unchecked(bytes) == FALSE

\* _handle_haves, bitfield: a set bit among range(piece_count, len(arr))
spare_bit_set(bytes) ==
    \E i \in piece_count .. (8 * Len(bytes) - 1) : BitOf(bytes, i)

\* _handle_haves
handle_haves(p, c, f) ==
    LET r0 == Result(c, download_info, << >>, NoError) IN
    IF MessageType(f.id) = "have"
    THEN IF PayloadLen(f) # 4 THEN [r0 EXCEPT !.err = "struct.error"]
         ELSE mark_as_owner(p, r0, UnpackIAt(f.head, 1))
    ELSE IF check_payload_len(f, CeilDiv(piece_count, 8)) # NoError
         THEN [r0 EXCEPT !.err = check_payload_len(f, CeilDiv(piece_count, 8))]
         ELSE LET r1 == mark_bits(p, r0, f.head, 0) IN
              IF r1.err = NoError /\ spare_bit_set(f.head)
              THEN [r1 EXCEPT !.err = "ValueError: Spare bits in bitfield message must be zero"]
              ELSE r1

\* A _check_position_range that forgets the end of the torrent
check_position_range_piece_only(piece_index, block_begin, block_length) ==
    IF piece_index < 0 \/ piece_index >= piece_count
    THEN "IndexError: Piece index out of range"
    ELSE IF \/ block_begin < 0
            \/ block_begin + block_length > piece_length
    THEN "IndexError: Position in piece out of range"
    ELSE NoError

\* _check_position_range
check_position_range(piece_index, block_begin, block_length) ==
    IF piece_index < 0 \/ piece_index >= piece_count
    THEN "IndexError: Piece index out of range"
    ELSE IF \/ block_begin < 0
            \/ block_begin + block_length > piece_length
            \/ piece_index * piece_length + block_begin + block_length > total_size
    THEN "IndexError: Position in piece out of range"
    ELSE NoError

\* A _handle_requests that answers while we are choking the peer
handle_requests_ignoring_choke(c, f) ==
    IF PayloadLen(f) # 12 THEN "struct.error"
    ELSE LET piece_index == UnpackIAt(f.head, 1)
             begin == UnpackIAt(f.head, 5)
             length == UnpackIAt(f.head, 9)
         IN  IF check_position_range(piece_index, begin, length) # NoError
             THEN check_position_range(piece_index, begin, length)
             ELSE IF MessageType(f.id) = "request"
             THEN IF length > MAX_REQUEST_LENGTH
                  THEN "ValueError: Requested too many bytes"
                  ELSE IF \/ ~c.peer_interested
                          \/ ~download_info.pieces[piece_index].downloaded
                  THEN "reject"
                  ELSE "send"
             ELSE "pass"

\* A _handle_requests whose length limit is off by one
handle_requests_limit_off_by_one(c, f) ==
    IF PayloadLen(f) # 12 THEN "struct.error"
    ELSE LET piece_index == UnpackIAt(f.head, 1)
             begin == UnpackIAt(f.head, 5)
             length == UnpackIAt(f.head, 9)
         IN  IF check_position_range(piece_index, begin, length) # NoError
             THEN check_position_range(piece_index, begin, length)
             ELSE IF MessageType(f.id) = "request"
             THEN IF length >= MAX_REQUEST_LENGTH
                  THEN "ValueError: Requested too many bytes"
                  ELSE IF \/ c.am_choking
                          \/ ~c.peer_interested
                          \/ ~download_info.pieces[piece_index].downloaded
                  THEN "reject"
                  ELSE "send"
             ELSE "pass"

\* _handle_requests up to its first await: the exception, "reject" for the
\* silent return, "send" when _send_block is awaited, "pass" for a cancel
handle_requests(c, f) ==
    IF PayloadLen(f) # 12 THEN "struct.error"
    ELSE LET piece_index == UnpackIAt(f.head, 1)
             begin == UnpackIAt(f.head, 5)
             length == UnpackIAt(f.head, 9)
         IN  IF check_position_range(piece_index, begin, length) # NoError
             THEN check_position_range(piece_index, begin, length)
             ELSE IF MessageType(f.id) = "request"
             THEN IF length > MAX_REQUEST_LENGTH
                  THEN "ValueError: Requested too many bytes"
                  ELSE IF \/ c.am_choking
                          \/ ~c.peer_interested
                          \/ ~download_info.pieces[piece_index].downloaded
                  THEN "reject"
                  ELSE "send"
             ELSE "pass"

\* A _handle_block that checks the range before it looks at am_interested
handle_block_range_first(c, f) ==
    IF PayloadLen(f) < 8 THEN "struct.error"
    ELSE LET piece_index == UnpackIAt(f.head, 1)
             block_begin == UnpackIAt(f.head, 5)
             block_length == PayloadLen(f) - 8
         IN  IF check_position_range(piece_index, block_begin, block_length) # NoError
             THEN check_position_range(piece_index, block_begin, block_length)
             ELSE IF ~c.am_interested \/ block_length = 0 THEN "drop"
             ELSE "lock"

\* _handle_block up to the lock: the exception, "drop" for a silent return,
\* "lock" when the block goes on to the file-store lock
handle_block(c, f) ==
    IF ~c.am_interested THEN "drop"
    ELSE IF PayloadLen(f) < 8 THEN "struct.error"
    ELSE LET piece_index == UnpackIAt(f.head, 1)
             block_begin == UnpackIAt(f.head, 5)
             block_length == PayloadLen(f) - 8
         IN  IF check_position_range(piece_index, block_begin, block_length) # NoError
             THEN check_position_range(piece_index, block_begin, block_length)
             ELSE IF block_length = 0 THEN "drop"
             ELSE "lock"

-----------------------------------------------------------------------------
(* File store                                                              *)

\* The blocks of piece_index that a write of [begin, begin + length) completes
MarkedBlocks(piece_index, begin, length) ==
    { b \in 0 .. (CeilDiv(get_real_piece_length(piece_index), BlockSize) - 1) :
        /\ b * BlockSize >= begin
        /\ Min((b + 1) * BlockSize, get_real_piece_length(piece_index)) <= begin + length }

AllBlocks(piece_index) ==
    0 .. (CeilDiv(get_real_piece_length(piece_index), BlockSize) - 1)

\* piece_info.mark_downloaded_blocks(peer, request)
mark_downloaded_blocks(di, request) ==
    [di EXCEPT !.pieces[request[1]].blocks = @ \cup MarkedBlocks(request[1], request[2], request[3])]

\* file_structure.write(offset, data, acquire_lock=False)
write(fs, offset, length) ==
    [fs EXCEPT !.written = @ \cup {<<offset, length>>}, !.writes = @ + 1]

\* A session that does not wait for the lock
lock_never_waited(fs) == TRUE

\* file_structure.lock can be taken without waiting
lock_is_free(fs) == fs.lock = "free"

\* A check that forgets the downloaded flag
block_ignored_validating_only(di, piece_index) == di.pieces[piece_index].validating

\* _handle_block, the head of the critical section: TRUE when the block is
\* to be ignored (if piece_info.validating or piece_info.downloaded: return)
block_ignored(di, piece_index) ==
    di.pieces[piece_index].validating \/ di.pieces[piece_index].downloaded

\* _handle_block from `async with self._file_structure.lock` to the await of
\* write(): session p has the lock
EnterLock(p, c) ==
    IF block_ignored(download_info, c.request[1])
    THEN /\ client' = [client EXCEPT ![p] = [c EXCEPT !.pc = "run", !.request = NoRequest]]
         /\ UNCHANGED <<statistics, file_structure>>
    ELSE /\ client' = [client EXCEPT ![p] =
                [c EXCEPT !.downloaded = @ + c.request[3], !.pc = "block_write"]]
         /\ statistics' = [statistics EXCEPT !.total_downloaded = @ + c.request[3]]
         /\ file_structure' = [file_structure EXCEPT !.lock = p]

\* _handle_block: the lock was taken by another task, and is free now
BlockLock(p) ==
    /\ client[p].pc = "block_lock"
    /\ lock_is_free(file_structure)
    /\ EnterLock(p, client[p])
    /\ out' = << >>
    /\ err' = NoError
    /\ UNCHANGED <<download_info, hs>>

\* _handle_block: the await of write() returns (or raises), then
\* mark_downloaded_blocks, then the lock is released
BlockWrite(p, ok) ==
    /\ client[p].pc = "block_write"
    /\ LET rq == client[p].request IN
       IF ok
       THEN /\ file_structure' =
                  [write(file_structure, rq[1] * piece_length + rq[2], rq[3])
                       EXCEPT !.lock = "free"]
            /\ download_info' = mark_downloaded_blocks(download_info, rq)
            /\ client' = [client EXCEPT ![p].pc = "run", ![p].request = NoRequest]
            /\ err' = NoError
       ELSE /\ file_structure' = [file_structure EXCEPT !.lock = "free"]
            /\ client' = [client EXCEPT ![p].pc = "stopped", ![p].request = NoRequest]
            /\ err' = "OSError"
            /\ UNCHANGED download_info
    /\ out' = << >>
    /\ UNCHANGED <<statistics, hs>>

-----------------------------------------------------------------------------
(* The receive loop                                                        *)

\* A _receive_message that refuses a frame of MAX_MESSAGE_LENGTH bytes too
receive_message_limit_off_by_one(f) ==
    IF f.length = 0 THEN "keep-alive"
    ELSE IF f.length >= MAX_MESSAGE_LENGTH THEN "ValueError: Message length is too big"
    ELSE MessageType(f.id)

\* A _receive_message that lets the ValueError of MessageType() out
receive_message_unknown_raises(f) ==
    IF f.length = 0 THEN "keep-alive"
    ELSE IF f.length > MAX_MESSAGE_LENGTH THEN "ValueError: Message length is too big"
    ELSE IF MessageType(f.id) = "unknown" THEN "ValueError: not a valid MessageType"
    ELSE MessageType(f.id)

\* _receive_message: "keep-alive" and "unknown" are its None results
receive_message(f) ==
    IF f.length = 0 THEN "keep-alive"
    ELSE IF f.length > MAX_MESSAGE_LENGTH THEN "ValueError: Message length is too big"
    ELSE MessageType(f.id)

IsError(v) ==
    v \notin {NoError, "reject", "send", "pass", "drop", "lock", "keep-alive", "unknown"}

\* One turn of run(): _receive_message, then the handler up to its first await
RecvFrame(p, f) ==
    /\ client[p].pc = "run"
    /\ LET kind == receive_message(f)
           c == [client[p] EXCEPT !.last = kind,
                                  !.seen_have = @ \/ kind \in {"have", "bitfield"}]
           plain == Result(c, download_info, << >>, NoError)
       IN
       CASE kind \in {"choke", "unchoke", "interested", "not_interested"} ->
              LET r == handle_setting_states(c, f) IN
              /\ Finish(p, r, IF r.err = NoError THEN "run" ELSE "stopped")
              /\ UNCHANGED <<statistics, file_structure>>
         [] kind \in {"have", "bitfield"} ->
              LET r == handle_haves(p, c, f) IN
              /\ Finish(p, r, IF r.err = NoError THEN "run" ELSE "stopped")
              /\ UNCHANGED <<statistics, file_structure>>
         [] kind \in {"request", "cancel"} ->
              LET v == handle_requests(c, f) IN
              /\ IF v = "send"
                 THEN Finish(p, [plain EXCEPT !.c.request =
                                    <<UnpackIAt(f.head, 1), UnpackIAt(f.head, 5),
                                      UnpackIAt(f.head, 9)>>], "request_read")
                 ELSE IF IsError(v) THEN Finish(p, [plain EXCEPT !.err = v], "stopped")
                 ELSE Finish(p, plain, "run")
              /\ UNCHANGED <<statistics, file_structure>>
         [] kind = "piece" ->
              LET v == handle_block(c, f)
                  c1 == [c EXCEPT !.request =
                            <<UnpackIAt(f.head, 1), UnpackIAt(f.head, 5), PayloadLen(f) - 8>>]
              IN
              /\ download_info' = download_info
              /\ out' = << >>
              /\ err' = IF IsError(v) THEN v ELSE NoError
              /\ IF v = "lock"
                 THEN IF lock_is_free(file_structure)
                      THEN EnterLock(p, c1)
                      ELSE /\ client' = [client EXCEPT ![p] = [c1 EXCEPT !.pc = "block_lock"]]
                           /\ UNCHANGED <<statistics, file_structure>>
                 ELSE /\ client' = [client EXCEPT ![p] =
                              [c EXCEPT !.pc = IF IsError(v) THEN "stopped" ELSE "run"]]
                      /\ UNCHANGED <<statistics, file_structure>>
         [] kind = "port" ->
              /\ Finish(p, [plain EXCEPT !.err = check_payload_len(f, 2)],
                        IF check_payload_len(f, 2) = NoError THEN "run" ELSE "stopped")
              /\ UNCHANGED <<statistics, file_structure>>
         [] kind \in {"keep-alive", "unknown"} ->
              /\ Finish(p, plain, "run")
              /\ UNCHANGED <<statistics, file_structure>>
         [] OTHER ->
              /\ Finish(p, [plain EXCEPT !.err = kind], "stopped")
              /\ UNCHANGED <<statistics, file_structure>>
    /\ UNCHANGED hs

\* _receive_message: readexactly times out or the peer has closed
RecvFail(p, e) ==
    /\ client[p].pc = "run"
    /\ client' = [client EXCEPT ![p].pc = "stopped"]
    /\ out' = << >>
    /\ err' = e
    /\ UNCHANGED <<download_info, statistics, file_structure, hs>>

\* _send_block: the await of file_structure.read returns length bytes (fewer
\* than asked for when the file is short), then the piece frame and the counters
RequestRead(p, length) ==
    /\ client[p].pc = "request_read"
    /\ LET rq == client[p].request IN
       /\ client' = [client EXCEPT ![p].uploaded = @ + rq[3], ![p].pc = "request_drain"]
       /\ statistics' = [statistics EXCEPT !.total_uploaded = @ + rq[3]]
       /\ out' = << <<p, Written("piece", <<rq[1], rq[2], length>>)>> >>
    /\ err' = NoError
    /\ UNCHANGED <<download_info, file_structure, hs>>

\* _send_block: the await of file_structure.read raises
RequestReadFail(p) ==
    /\ client[p].pc = "request_read"
    /\ client' = [client EXCEPT ![p].pc = "stopped", ![p].request = NoRequest]
    /\ out' = << >>
    /\ err' = "OSError"
    /\ UNCHANGED <<download_info, statistics, file_structure, hs>>

\* _handle_requests: await self.drain()
RequestDrain(p, ok) ==
    /\ client[p].pc = "request_drain"
    /\ client' = [client EXCEPT ![p].pc = IF ok THEN "run" ELSE "stopped",
                                 ![p].request = NoRequest]
    /\ out' = << >>
    /\ err' = IF ok THEN NoError ELSE "TimeoutError"
    /\ UNCHANGED <<download_info, statistics, file_structure, hs>>

\* send_request(request, cancel): the range check, the owner assertion for
\* a request, then the request or cancel frame
send_request(p, c, di, request, cancel) ==
    IF check_position_range(request[1], request[2], request[3]) # NoError
    THEN Result(c, di, << >>, check_position_range(request[1], request[2], request[3]))
    ELSE IF ~cancel /\ p \notin di.pieces[request[1]].owners
    THEN Result(c, di, << >>, "AssertionError")
    ELSE Result(c, di,
                << Written(IF cancel THEN "cancel" ELSE "request",
                           PackI(request[1]) \o PackI(request[2]) \o PackI(request[3])) >>,
                NoError)

\* The downloader calls send_request on a connected session; an exception
\* goes to the caller, the receive loop of the session stays where it is
SendRequest(p, request, cancel) ==
    /\ client[p].connected
    /\ client[p].pc \in {"run", "request_read", "request_drain", "block_lock", "block_write"}
    /\ LET r == send_request(p, client[p], download_info, request, cancel) IN
       Finish(p, r, client[p].pc)
    /\ UNCHANGED <<statistics, file_structure, hs>>

-----------------------------------------------------------------------------
(* Piece validation (the downloader's side of the file-store lock)         *)

\* A full piece goes to validation: the validator takes the lock and marks it
ValidateStart(i) ==
    /\ lock_is_free(file_structure)
    /\ ~download_info.pieces[i].validating
    /\ ~download_info.pieces[i].downloaded
    /\ download_info.pieces[i].blocks = AllBlocks(i)
    /\ file_structure' = [file_structure EXCEPT !.lock = "validator"]
    /\ download_info' = [download_info EXCEPT !.pieces[i].validating = TRUE]
    /\ out' = << >>
    /\ err' = NoError
    /\ UNCHANGED <<client, statistics, hs>>

\* The hash is known: the piece is downloaded, or its content is reset
ValidateFinish(i, hash_ok) ==
    /\ file_structure.lock = "validator"
    /\ download_info.pieces[i].validating
    /\ file_structure' = [file_structure EXCEPT !.lock = "free"]
    /\ download_info' =
         IF hash_ok
         THEN [download_info EXCEPT
                 !.pieces[i].validating = FALSE,
                 !.pieces[i].downloaded = TRUE,
                 !.interesting_pieces = @ \ {i},
                 !.downloaded_piece_count = @ + 1,
                 !.complete = (download_info.interesting_pieces \ {i} = {})]
         ELSE [download_info EXCEPT
                 !.pieces[i].validating = FALSE,
                 !.pieces[i].blocks = {}]
    /\ out' = << >>
    /\ err' = NoError
    /\ UNCHANGED <<client, statistics, hs>>

-----------------------------------------------------------------------------
(* The TorrentManager (torrent_client/algorithms/torrent_manager.py)       *)

\* The tasks run() starts with ensure_future, in the order of _executors
Executors == <<"announcer", "uploader", "speed_measurer">>

Tasks == {Executors[k] : k \in 1 .. Len(Executors)}

\* No read of the piece has returned yet
NoRead == [raised |-> FALSE, length |-> -1, content |-> << >>]

\* torrent_info.announce_list as the parser loaded it: the tiers in order,
\* each tier its URLs in the order of the file
LoadedAnnounceList == << <<"udp://a", "udp://b">>, <<"udp://c">> >>

\* The TorrentInfo the manager is constructed with
LoadedTorrentInfo ==
    [ info_hash     |-> OurInfoHash,
      piece_length  |-> piece_length,
      files         |-> << [length |-> total_size, path |-> "file"] >>,
      piece_hashes  |-> [i \in PieceIndices |-> <<"digest", i>>],
      download_dir  |-> "download_dir",
      announce_list |-> LoadedAnnounceList ]

\* TorrentManager.__init__; data, announced, retried, started and stopped
\* are history: what the store returned for each piece, whether a started
\* announce has succeeded, whether one has failed, which peer work has
\* begun, and the components in the order stop() has stopped them
NewManager ==
    [ torrent_info   |-> LoadedTorrentInfo,
      pc             |-> "new",
      selected       |-> << >>,
      k              |-> 0,
      verified_count |-> 0,
      missing_pieces |-> {},
      data           |-> [i \in PieceIndices |-> NoRead],
      announced      |-> FALSE,
      retried        |-> FALSE,
      peers          |-> {},
      dialed         |-> {},
      started        |-> {},
      accepted       |-> {},
      executors      |-> << >>,
      task           |-> [t \in Tasks |-> "none"],
      stop_pc        |-> "idle",
      stopped        |-> << >> ]

\* hashlib.sha1(data).digest(), the content of data being abstract
Sha1(data) == <<"sha1", data.length, data.content>>

\* piece.piece_hash: the digest of the real_piece_length bytes of the piece
piece_hash(index) ==
    Sha1([length |-> get_real_piece_length(index), content |-> <<"piece", index>>])

\* What file_structure.read(offset, piece_length) may give for a piece: the
\* piece, other bytes of that length, a truncated file, or OSError
ReadResults(index) ==
    { [raised |-> FALSE, length |-> get_real_piece_length(index), content |-> <<"piece", index>>],
      [raised |-> FALSE, length |-> get_real_piece_length(index), content |-> <<"other", index>>],
      [raised |-> FALSE, length |-> get_real_piece_length(index) - 1, content |-> <<"piece", index>>],
      [raised |-> TRUE, length |-> 0, content |-> << >>] }

\* piece.reset_content()
reset_content(piece) == [piece EXCEPT !.downloaded = FALSE, !.blocks = {}]

\* piece.mark_as_downloaded()
mark_as_downloaded(piece) == [piece EXCEPT !.downloaded = TRUE, !.blocks = {}]

\* [i for i, piece in enumerate(pieces) if piece.selected]
RECURSIVE selected_from(_, _)
selected_from(di, i) ==
    IF i >= piece_count THEN << >>
    ELSE (IF di.pieces[i].selected THEN <<i>> ELSE << >>) \o selected_from(di, i + 1)

selected_piece_indices(di) == selected_from(di, 0)

\* What _verify_existing_data holds: the DownloadInfo and its own locals
Verifying(di, m) == [di |-> di, m |-> m]

\* _verify_existing_data up to its first await (or its early return)
verify_start(di, m) ==
    LET selected == selected_piece_indices(di) IN
    IF selected = << >>
    THEN Verifying([di EXCEPT !.downloaded_piece_count = 0,
                              !.complete = FALSE,
                              !.interesting_pieces = {}],
                   [m EXCEPT !.pc = "announce"])
    ELSE Verifying([di EXCEPT !.downloaded_piece_count = 0,
                              !.interesting_pieces = {}],
                   [m EXCEPT !.pc = "verify", !.selected = selected, !.k = 1,
                             !.verified_count = 0, !.missing_pieces = {}])

\* A verification that trusts the length of what was read
verify_piece_unhashed(di, m, index, read) ==
    LET data == IF read.raised THEN [length |-> 0, content |-> << >>]
                ELSE [length |-> read.length, content |-> read.content]
    IN  IF data.length # get_real_piece_length(index)
        THEN Verifying([di EXCEPT !.pieces[index] = reset_content(@)],
                       [m EXCEPT !.missing_pieces = @ \cup {index}])
        ELSE Verifying([di EXCEPT !.pieces[index] =
                                      IF ~@.downloaded THEN mark_as_downloaded(@) ELSE @,
                                  !.downloaded_piece_count = @ + 1],
                       [m EXCEPT !.verified_count = @ + 1])

\* The body of the loop of _verify_existing_data for one piece, from the
\* return of read() on
verify_piece(di, m, index, read) ==
    LET data == IF read.raised THEN [length |-> 0, content |-> << >>]
                ELSE [length |-> read.length, content |-> read.content]
    IN  IF data.length # get_real_piece_length(index)
        THEN Verifying([di EXCEPT !.pieces[index] = reset_content(@)],
                       [m EXCEPT !.missing_pieces = @ \cup {index}])
        ELSE IF Sha1(data) = piece_hash(index)
        THEN Verifying([di EXCEPT !.pieces[index] =
                                      IF ~@.downloaded THEN mark_as_downloaded(@) ELSE @,
                                  !.downloaded_piece_count = @ + 1],
                       [m EXCEPT !.verified_count = @ + 1])
        ELSE Verifying([di EXCEPT !.pieces[index] = reset_content(@)],
                       [m EXCEPT !.missing_pieces = @ \cup {index}])

\* _verify_existing_data after the loop
verify_finish(di, m) ==
    Verifying([di EXCEPT !.interesting_pieces = @ \cup m.missing_pieces,
                         !.complete = (m.verified_count = Len(m.selected)
                                          /\ m.verified_count > 0)],
              [m EXCEPT !.pc = "announce"])

\* A shuffle that draws each position of the tier independently
shuffle_with_replacement(tier) ==
    {[k \in 1 .. Len(tier) |-> tier[f[k]]] : f \in [1 .. Len(tier) -> 1 .. Len(tier)]}

\* random.shuffle(tier): the tier in any order of its URLs
shuffle(tier) ==
    {[k \in 1 .. Len(tier) |-> tier[f[k]]] : f \in Permutations(1 .. Len(tier))}

\* _shuffle_announce_tiers: every tier of torrent_info.announce_list is
\* shuffled in place
shuffle_announce_tiers(ti) ==
    LET tiers == ti.announce_list
        lists == UNION {shuffle(tiers[k]) : k \in 1 .. Len(tiers)}
    IN  {[ti EXCEPT !.announce_list = al] :
            al \in {a \in [1 .. Len(tiers) -> lists] :
                       \A k \in 1 .. Len(tiers) : a[k] \in shuffle(tiers[k])}}

\* run() from the return of _verify_existing_data to the first await of
\* try_to_announce: the tiers are shuffled
after_verify(m) ==
    IF m.pc = "announce"
    THEN {[m EXCEPT !.torrent_info = ti] : ti \in shuffle_announce_tiers(m.torrent_info)}
    ELSE {m}

\* run() is scheduled: _verify_existing_data starts
RunStart ==
    /\ manager.pc = "new"
    /\ LET v == verify_start(download_info, manager) IN
       /\ download_info' = v.di
       /\ manager' \in after_verify(v.m)
    /\ out' = << >>
    /\ err' = NoError
    /\ UNCHANGED <<client, statistics, file_structure, hs>>

\* The read of the piece at position k of the selected pieces returns
VerifyRead(read) ==
    /\ manager.pc = "verify"
    /\ LET index == manager.selected[manager.k]
           m1 == [manager EXCEPT !.data[index] = read]
           v == verify_piece(download_info, m1, index, read)
           w == IF manager.k = Len(manager.selected)
                THEN verify_finish(v.di, v.m)
                ELSE Verifying(v.di, [v.m EXCEPT !.k = @ + 1])
       IN  /\ read \in ReadResults(index)
           /\ download_info' = w.di
           /\ manager' \in after_verify(w.m)
    /\ out' = << >>
    /\ err' = NoError
    /\ UNCHANGED <<client, statistics, file_structure, hs>>

\* A run() that gives up when the announce fails
after_announce_gives_up(m, ok, peers) ==
    IF ~ok THEN [m EXCEPT !.pc = "done", !.retried = TRUE]
    ELSE [m EXCEPT
            !.announced = TRUE,
            !.peers = peers,
            !.dialed = peers,
            !.executors = @ \o Executors,
            !.task = [t \in Tasks |-> "running"],
            !.started = {"connect_to_peers", "executors", "invoke", "downloader"},
            !.pc = "downloader_run"]

\* run() from the return of try_to_announce(started) to its next await: the
\* sleep, or connect_to_peers, the three tasks, invoke and downloader.run()
after_announce(m, ok, peers) ==
    IF ~ok THEN [m EXCEPT !.pc = "sleep", !.retried = TRUE]
    ELSE [m EXCEPT
            !.announced = TRUE,
            !.peers = peers,
            !.dialed = peers,
            !.executors = @ \o Executors,
            !.task = [t \in Tasks |-> "running"],
            !.started = {"connect_to_peers", "executors", "invoke", "downloader"},
            !.pc = "downloader_run"]

\* try_to_announce(EventType.started) returns
AnnounceReturn(ok, peers) ==
    /\ manager.pc = "announce"
    /\ manager' = after_announce(manager, ok, peers)
    /\ out' = << >>
    /\ err' = NoError
    /\ UNCHANGED <<client, download_info, statistics, file_structure, hs>>

\* asyncio.sleep(ANNOUNCE_FAILED_SLEEP_TIME) returns
SleepReturn ==
    /\ manager.pc = "sleep"
    /\ manager' = [manager EXCEPT !.pc = "announce"]
    /\ out' = << >>
    /\ err' = NoError
    /\ UNCHANGED <<client, download_info, statistics, file_structure, hs>>

\* downloader.run() returns, and run() with it
DownloaderReturn ==
    /\ manager.pc = "downloader_run"
    /\ manager' = [manager EXCEPT !.pc = "done"]
    /\ out' = << >>
    /\ err' = NoError
    /\ UNCHANGED <<client, download_info, statistics, file_structure, hs>>

\* accept_client(peer, client): the inbound session goes to the peer manager
accept_client(m, peer) == [m EXCEPT !.accepted = @ \cup {peer}]

\* The acceptor hands an inbound session to the manager of its torrent
AcceptClient(peer) ==
    /\ peer \notin manager.accepted
    /\ manager' = accept_client(manager, peer)
    /\ out' = << >>
    /\ err' = NoError
    /\ UNCHANGED <<client, download_info, statistics, file_structure, hs>>

\* stop() is called: await self._downloader.stop()
Stop ==
    /\ manager.stop_pc = "idle"
    /\ manager' = [manager EXCEPT !.stop_pc = "downloader_stop",
                                  !.stopped = Append(@, "downloader")]
    /\ out' = << >>
    /\ err' = NoError
    /\ UNCHANGED <<client, download_info, statistics, file_structure, hs>>

\* downloader.stop() returns: await self._peer_manager.stop()
StopPeerManager ==
    /\ manager.stop_pc = "downloader_stop"
    /\ manager' = [manager EXCEPT !.stop_pc = "peer_manager_stop",
                                  !.stopped = Append(@, "peer_manager")]
    /\ out' = << >>
    /\ err' = NoError
    /\ UNCHANGED <<client, download_info, statistics, file_structure, hs>>

\* A stop() that cancels the tasks in the order they were started
cancel_order_as_started(executors) == executors

\* reversed(executors)
cancel_order(executors) ==
    [k \in 1 .. Len(executors) |-> executors[Len(executors) + 1 - k]]

\* peer_manager.stop() returns: the tasks are cancelled, then
\* await asyncio.wait(executors) when there are any
StopCancel ==
    /\ manager.stop_pc = "peer_manager_stop"
    /\ manager' =
          [manager EXCEPT
              !.stop_pc = IF manager.executors # << >> THEN "wait" ELSE "returned",
              !.stopped = @ \o cancel_order(manager.executors),
              !.task = [t \in Tasks |->
                           IF \E k \in 1 .. Len(manager.executors) : manager.executors[k] = t
                           THEN "cancelled" ELSE @[t]]]
    /\ out' = << >>
    /\ err' = NoError
    /\ UNCHANGED <<client, download_info, statistics, file_structure, hs>>

\* A cancelled task ends
TaskFinish(t) ==
    /\ manager.task[t] = "cancelled"
    /\ manager' = [manager EXCEPT !.task[t] = "done"]
    /\ out' = << >>
    /\ err' = NoError
    /\ UNCHANGED <<client, download_info, statistics, file_structure, hs>>

\* asyncio.wait(executors) returns when every task it was given is done
wait_is_over(m) ==
    \A k \in 1 .. Len(m.executors) : m.task[m.executors[k]] = "done"

\* stop() returns
StopReturn ==
    /\ manager.stop_pc = "wait"
    /\ wait_is_over(manager)
    /\ manager' = [manager EXCEPT !.stop_pc = "returned"]
    /\ out' = << >>
    /\ err' = NoError
    /\ UNCHANGED <<client, download_info, statistics, file_structure, hs>>

-----------------------------------------------------------------------------
(* The UDP tracker server (server.py)                                      *)

\* add_connection_id(connection_id, expiration_duration = 300)
expiration_duration == 300

\* min(200, len(peers))
NumWantDefault == 200

\* TorrentData.interval
TrackerInterval == 1800

\* The bytes unpack_from('!II', data, 8) needs, and
\* struct.calcsize('!QII20s20sQQQIIIIH')
HeaderLen == 16
AnnounceLen == 98

\* How many times the clock is moved, how far the counts of one torrent may
\* run ahead of its peers, and how many peers a swarm may have registered
MaxTicks == 3
MaxDrift == 1
MaxSwarm == 201

\* A dict with no key
EmptyDict == [k \in {} |-> 0]

\* dict[key] = value
DictSet(dict, key, value) ==
    [k \in DOMAIN dict \cup {key} |-> IF k = key THEN value ELSE dict[k]]

\* struct.unpack('!I', b): an unsigned 32-bit value hi * 2^16 + lo, kept as
\* its two 16-bit halves
UnpackU32(b) == [hi |-> b[1] * 256 + b[2], lo |-> b[3] * 256 + b[4]]

\* value == n for an unpacked unsigned value and a Python int n
U32Equals(value, n) ==
    /\ n >= 0
    /\ value.hi = n \div 65536
    /\ value.lo = n % 65536

\* min(value, n) for an unpacked unsigned value and a length n < 2^16
MinU32(value, n) ==
    IF value.hi > 0 \/ value.lo > n THEN n ELSE value.lo

\* socket.inet_aton(ip) of the IPv4 hosts of the loopback network
inet_aton(ip) ==
    CASE ip = "127.0.0.1" -> <<127, 0, 0, 1>>
      [] ip = "127.0.0.2" -> <<127, 0, 0, 2>>

\* socket.inet_pton(socket.AF_INET6, ip) of the IPv6 loopback host
inet_pton6(ip) ==
    CASE ip = "::1" -> <<0, 0, 0, 0, 0, 0, 0, 0, 0, 0, 0, 0, 0, 0, 0, 1>>

\* The six bytes of one peer in the response: struct.pack('!4sH', ip_bytes[:4], port)
compact_peer(peer) ==
    LET ip_bytes == IF peer.ip = "::1" THEN inet_pton6(peer.ip) ELSE inet_aton(peer.ip)
    IN  <<SubSeq(ip_bytes, 1, 4), peer.port>>

\* UDPTrackerServerProtocol.__init__ on a socket of one address family; now
\* is time.time(), ticks counts the moves of the clock, issued is history:
\* connection_id -> the time of the last connect that produced it
NewTracker(family) ==
    [ family         |-> family,
      now            |-> 0,
      ticks          |-> 0,
      connection_ids |-> EmptyDict,
      issued         |-> EmptyDict,
      torrents       |-> EmptyDict,
      sent           |-> << >> ]

\* TrackerStorage.add_connection_id
add_connection_id(tr, connection_id) ==
    LET expiration_time == tr.now + expiration_duration IN
    [tr EXCEPT !.connection_ids = DictSet(@, connection_id, expiration_time)]

\* A validity test that still accepts at the expiration time
is_connection_id_valid_at_expiration(tr, connection_id) ==
    /\ connection_id \in DOMAIN tr.connection_ids
    /\ tr.connection_ids[connection_id] >= tr.now

\* TrackerStorage.is_connection_id_valid
is_connection_id_valid(tr, connection_id) ==
    /\ connection_id \in DOMAIN tr.connection_ids
    /\ tr.connection_ids[connection_id] > tr.now

\* TorrentData.__init__
NewTorrentData(info_hash) ==
    [ info_hash      |-> info_hash,
      peers          |-> << >>,
      seeders_count  |-> 0,
      leechers_count |-> 0,
      interval       |-> TrackerInterval ]

\* A search that stops after the first entry of peers
find_existing_first_entry_only(peers, ip, port) ==
    IF Len(peers) > 0 /\ peers[1].ip = ip /\ peers[1].port = port THEN 1 ELSE 0

\* The position in peers (a dict in insertion order) of the first entry
\* with this ip and port, 0 when there is none
find_existing(peers, ip, port) ==
    LET found == {k \in 1 .. Len(peers) : peers[k].ip = ip /\ peers[k].port = port}
    IN  IF found = {} THEN 0 ELSE CHOOSE k \in found : \A j \in found : k <= j

\* The position in peers of the key peer_id, 0 when there is none
key_position(peers, peer_id) ==
    LET found == {k \in 1 .. Len(peers) : peers[k].peer_id = peer_id}
    IN  IF found = {} THEN 0 ELSE CHOOSE k \in found : \A j \in found : k <= j

\* TorrentData.add_peer; peer_ids are 20 bytes, never empty, so
\* `if existing_peer` is true whenever the loop found one
add_peer(td, peer_id, ip, port, is_seeder) ==
    LET existing_peer == find_existing(td.peers, ip, port) IN
    IF existing_peer # 0
    THEN LET was_seeder == td.peers[existing_peer].is_seeder IN
         [td EXCEPT
            !.seeders_count = IF was_seeder /\ ~is_seeder THEN @ - 1
                              ELSE IF ~was_seeder /\ is_seeder THEN @ + 1 ELSE @,
            !.leechers_count = IF was_seeder /\ ~is_seeder THEN @ + 1
                               ELSE IF ~was_seeder /\ is_seeder THEN @ - 1 ELSE @,
            !.peers[existing_peer] =
                [peer_id |-> @.peer_id, ip |-> ip, port |-> port, is_seeder |-> is_seeder]]
    ELSE LET entry == [peer_id |-> peer_id, ip |-> ip, port |-> port, is_seeder |-> is_seeder]
             key == key_position(td.peers, peer_id)
         IN  [td EXCEPT
                !.peers = IF key # 0 THEN [@ EXCEPT ![key] = entry] ELSE Append(@, entry),
                !.seeders_count = IF is_seeder THEN @ + 1 ELSE @,
                !.leechers_count = IF is_seeder THEN @ ELSE @ + 1]

\* TorrentData.remove_peer
remove_peer(td, peer_id) ==
    LET key == key_position(td.peers, peer_id) IN
    IF key = 0 THEN td
    ELSE [td EXCEPT
            !.seeders_count = IF td.peers[key].is_seeder THEN @ - 1 ELSE @,
            !.leechers_count = IF td.peers[key].is_seeder THEN @ ELSE @ - 1,
            !.peers = SubSeq(@, 1, key - 1) \o SubSeq(@, key + 1, Len(@))]

\* transport.sendto(response, addr); a response is its header and the peer
\* records after it
Sent(response, addr) == << [response |-> response, addr |-> addr] >>

\* handle_connect with the connection_id random.randint gave
handle_connect(tr, transaction_id, addr, connection_id) ==
    LET stored == add_connection_id(tr, connection_id) IN
    [stored EXCEPT
        !.issued = DictSet(@, connection_id, tr.now),
        !.sent = Sent([header |-> [action |-> 0, transaction_id |-> transaction_id,
                                   connection_id |-> connection_id],
                       peers |-> << >>], addr)]

\* The torrent of info_hash, created when it is not in self.torrents
torrent_of(tr, info_hash) ==
    IF info_hash \in DOMAIN tr.torrents THEN tr.torrents[info_hash]
    ELSE NewTorrentData(info_hash)

\* struct.pack('!III', 1, transaction_id, interval) + struct.pack('!II', leechers, seeders)
response_header(td, transaction_id) ==
    [ action         |-> 1,
      transaction_id |-> transaction_id,
      interval       |-> td.interval,
      leechers       |-> td.leechers_count,
      seeders        |-> td.seeders_count ]

\* A list of the others that leaves the announcer in
other_peers_with_announcer(peers, host, port) == peers

\* [p for p in peers.values() if not (p['ip'] == addr[0] and p['port'] == port)]
other_peers(peers, host, port) ==
    SelectSeq(peers, LAMBDA p : ~(p.ip = host /\ p.port = port))

\* num_to_send: num_want was unpacked unsigned
num_to_send(num_want, peers) ==
    IF U32Equals(num_want, -1)
    THEN Min(NumWantDefault, Len(peers))
    ELSE MinU32(num_want, Len(peers))

\* peer_list: the compact form of each selected peer, in order
peer_list(selected_peers) ==
    [k \in 1 .. Len(selected_peers) |-> compact_peer(selected_peers[k])]

\* The branch of handle_announce for every event but stopped
announce_other(tr, d, addr) ==
    LET is_seeder == (d.left = 0)
        td == add_peer(torrent_of(tr, d.info_hash), d.peer_id, addr[1], d.port, is_seeder)
        peers == other_peers(td.peers, addr[1], d.port)
        selected_peers == SubSeq(peers, 1, num_to_send(UnpackU32(d.num_want), peers))
    IN  [tr EXCEPT
            !.torrents = DictSet(@, d.info_hash, td),
            !.sent = Sent([header |-> response_header(td, d.transaction_id),
                           peers |-> peer_list(selected_peers)], addr)]

\* A stopped branch that answers like the other branch
announce_stopped_listing_peers(tr, d, addr) == announce_other(tr, d, addr)

\* A stopped branch that takes the peer out of the torrent
announce_stopped_removing_peer(tr, d, addr) ==
    LET td == remove_peer(torrent_of(tr, d.info_hash), d.peer_id) IN
    [tr EXCEPT
        !.torrents = DictSet(@, d.info_hash, td),
        !.sent = Sent([header |-> response_header(td, d.transaction_id),
                       peers |-> << >>], addr)]

\* The branch of handle_announce for event == 3: the header only
announce_stopped(tr, d, addr) ==
    LET is_seeder == (d.left = 0)
        td == add_peer(torrent_of(tr, d.info_hash), d.peer_id, addr[1], d.port, is_seeder)
    IN  [tr EXCEPT
            !.torrents = DictSet(@, d.info_hash, td),
            !.sent = Sent([header |-> response_header(td, d.transaction_id),
                           peers |-> << >>], addr)]

\* A handle_announce that never looks at the connection_id
handle_announce_unchecked(tr, d, addr) ==
    IF d.event = 3 THEN announce_stopped(tr, d, addr)
    ELSE announce_other(tr, d, addr)

\* handle_announce
handle_announce(tr, d, addr) ==
    IF ~is_connection_id_valid(tr, d.connection_id) THEN tr
    ELSE IF d.event = 3 THEN announce_stopped(tr, d, addr)
    ELSE announce_other(tr, d, addr)

\* datagram_received: a datagram too short for what is unpacked raises
\* struct.error, which is logged; connection_id is the one a connect draws
datagram_received(tr, d, addr, connection_id) ==
    LET quiet == [tr EXCEPT !.sent = << >>] IN
    IF d.length < HeaderLen THEN quiet
    ELSE IF d.action = 0 THEN handle_connect(quiet, d.transaction_id, addr, connection_id)
    ELSE IF d.action = 1
    THEN (IF d.length < AnnounceLen THEN quiet ELSE handle_announce(quiet, d, addr))
    ELSE quiet

\* In every torrent the two counts are at most MaxDrift ahead of the peers
DriftWithin(tr) ==
    \A h \in DOMAIN tr.torrents :
        tr.torrents[h].seeders_count + tr.torrents[h].leechers_count
            <= Len(tr.torrents[h].peers) + MaxDrift

\* A datagram arrives
DatagramReceived(d, addr, connection_id) ==
    /\ tracker' = datagram_received(tracker, d, addr, connection_id)
    /\ DriftWithin(tracker')
    /\ UNCHANGED <<client, download_info, statistics, file_structure, hs, out, err, manager>>

\* Time passes
Tick(seconds) ==
    /\ tracker.ticks < MaxTicks
    /\ tracker' = [tracker EXCEPT !.now = @ + seconds, !.ticks = @ + 1, !.sent = << >>]
    /\ UNCHANGED <<client, download_info, statistics, file_structure, hs, out, err, manager>>

-----------------------------------------------------------------------------
(* What the peers send                                                     *)

StateFrames == {Frame(id, head, 0) : id \in 0 .. 3, head \in {<< >>, <<0>>}}

HaveFrames == {Frame(4, PackI(i), 0) : i \in 0 .. piece_count} \cup {Frame(4, <<0, 0>>, 0)}

BitfieldFrames ==
    {Frame(5, bytes, 0) :
        bytes \in {<<0>>, <<128>>, <<64>>, <<192>>, <<129>>, <<1>>, << >>, <<128, 0>>}}

RequestPayloads ==
    { PackI(t[1]) \o PackI(t[2]) \o PackI(t[3]) :
        t \in { <<0, 0, 0>>,
                <<0, 0, MAX_REQUEST_LENGTH>>,
                <<0, MAX_REQUEST_LENGTH, MAX_REQUEST_LENGTH>>,
                <<piece_count - 1, 0, MAX_REQUEST_LENGTH>>,
                <<0, 0, MAX_REQUEST_LENGTH + 1>>,
                <<0, MAX_REQUEST_LENGTH, MAX_REQUEST_LENGTH + 1>>,
                <<piece_count - 1, MAX_REQUEST_LENGTH, MAX_REQUEST_LENGTH>>,
                <<piece_count, 0, 0>> } }

RequestFrames ==
    {Frame(6, payload, 0) : payload \in RequestPayloads} \cup {Frame(6, PackI(0) \o PackI(0), 0)}

CancelFrames ==
    { Frame(8, PackI(0) \o PackI(0) \o PackI(BlockSize), 0),
      Frame(8, PackI(piece_count) \o PackI(0) \o PackI(BlockSize), 0) }

OtherFrames ==
    { KeepAlive,
      Frame(9, <<26, 225>>, 0), Frame(9, << >>, 0),
      Frame(10, << >>, 0), Frame(20, <<1>>, 0),
      Frame(20, << >>, MAX_MESSAGE_LENGTH - 1),
      [length |-> MAX_MESSAGE_LENGTH + 1, id |-> 0, head |-> << >>, blob |-> 0],
      [length |-> MAX_MESSAGE_LENGTH + 1, id |-> 1, head |-> << >>, blob |-> 0] }

PieceFrames ==
    { Frame(7, PackI(t[1]) \o PackI(t[2]), t[3]) :
        t \in { <<0, 0, MAX_REQUEST_LENGTH>>,
                <<0, MAX_REQUEST_LENGTH, MAX_REQUEST_LENGTH>>,
                <<piece_count - 1, 0, MAX_REQUEST_LENGTH>>,
                <<piece_count - 1, MAX_REQUEST_LENGTH, BlockSize>>,
                <<0, 0, 0>>,
                <<piece_count - 1, MAX_REQUEST_LENGTH, MAX_REQUEST_LENGTH>>,
                <<piece_count, 0, BlockSize>> } }
      \cup {Frame(7, PackI(0), 0)}

\* The BlockRequests the downloader may hand to send_request
SentRequests ==
    { <<0, 0, BlockSize>>,
      <<piece_count - 1, 0, BlockSize>>,
      <<piece_count - 1, MAX_REQUEST_LENGTH, BlockSize>>,
      <<piece_count - 1, MAX_REQUEST_LENGTH, MAX_REQUEST_LENGTH>>,
      <<0, piece_length, 1>>,
      <<piece_count, 0, BlockSize>> }

SessionFrames ==
    StateFrames \cup HaveFrames \cup BitfieldFrames \cup RequestFrames
        \cup CancelFrames \cup OtherFrames

-----------------------------------------------------------------------------
(* Specifications                                                          *)

InitShared(have) ==
    /\ download_info = NewDownloadInfo(have)
    /\ statistics = NewStatistics
    /\ file_structure = NewFileStructure
    /\ out = << >>
    /\ err = NoError
    /\ manager = NewManager
    /\ tracker = NewTracker("inet")

\* A session whose handshake has succeeded with peer id_a
ConnectedClient(interested) ==
    [populate_info(NewClient(NoPeerId)) EXCEPT
        !.peer_id = "id_a", !.writer = "open", !.connected = TRUE, !.pc = "run",
        !.am_interested = interested]

ConnectedHandshake(have) ==
    [NewHandshake(NoPeerId) EXCEPT
        !.direction = "connect", !.pstrlen = HANDSHAKE_LEN, !.pstr = HANDSHAKE_NAME,
        !.info_hash = OurInfoHash, !.peer_id = "id_a",
        !.bitfield = bitfield_of(NewDownloadInfo(have))]

\* One session, from __init__ on
InitHandshake ==
    /\ \E expected \in {NoPeerId, "id_a"} :
          /\ client = [p \in {"p1"} |-> NewClient(expected)]
          /\ hs = [p \in {"p1"} |-> NewHandshake(expected)]
    /\ \E have \in {{}, {0}} : InitShared(have)

NextHandshake ==
    \/ \E p \in Peers, opened \in BOOLEAN : Connect(p, opened) /\ UNCHANGED <<manager, tracker>>
    \/ \E p \in Peers, r \in ProtocolReads : ConnectReceiveProtocol(p, r) /\ UNCHANGED <<manager, tracker>>
    \/ \E p \in Peers, r \in InfoReads : ConnectReceiveInfo(p, r) /\ UNCHANGED <<manager, tracker>>
    \/ \E p \in Peers : Accept(p) /\ UNCHANGED <<manager, tracker>>
    \/ \E p \in Peers, r \in ProtocolReads : AcceptReceiveProtocol(p, r) /\ UNCHANGED <<manager, tracker>>
    \/ \E p \in Peers, r \in InfoReads : AcceptReceiveInfo(p, r) /\ UNCHANGED <<manager, tracker>>
    \/ \E p \in Peers : ConfirmInfoHash(p) /\ UNCHANGED <<manager, tracker>>
    \/ \E p \in Peers : Close(p) /\ UNCHANGED <<manager, tracker>>
    \/ \E p \in Peers, v \in BOOLEAN : SetAmChoking(p, v) /\ UNCHANGED <<manager, tracker>>
    \/ \E p \in Peers, v \in BOOLEAN : SetAmInterested(p, v) /\ UNCHANGED <<manager, tracker>>
    \/ \E p \in Peers, f \in StateFrames : RecvFrame(p, f) /\ UNCHANGED <<manager, tracker>>

SpecHandshake == InitHandshake /\ [][NextHandshake]_vars

\* One connected session and the frames its peer sends
InitSession ==
    /\ client = [p \in {"p1"} |-> ConnectedClient(FALSE)]
    /\ \E have \in {{}, {0}} :
          /\ hs = [p \in {"p1"} |-> ConnectedHandshake(have)]
          /\ InitShared(have)

\* The peer sends while the upload budget of the model lasts
MaySend(p) == client[p].uploaded + MAX_REQUEST_LENGTH <= MaxTransfer

NextSession ==
    \/ \E p \in Peers, f \in SessionFrames : MaySend(p) /\ RecvFrame(p, f) /\ UNCHANGED <<manager, tracker>>
    \/ \E p \in Peers, e \in {"TimeoutError", "IncompleteReadError"} : RecvFail(p, e) /\ UNCHANGED <<manager, tracker>>
    \/ \E p \in Peers : \E n \in {client[p].request[3], 0} : RequestRead(p, n) /\ UNCHANGED <<manager, tracker>>
    \/ \E p \in Peers : RequestReadFail(p) /\ UNCHANGED <<manager, tracker>>
    \/ \E p \in Peers, ok \in BOOLEAN : RequestDrain(p, ok) /\ UNCHANGED <<manager, tracker>>
    \/ \E p \in Peers, v \in BOOLEAN : SetAmChoking(p, v) /\ UNCHANGED <<manager, tracker>>
    \/ \E p \in Peers, v \in BOOLEAN : SetAmInterested(p, v) /\ UNCHANGED <<manager, tracker>>
    \/ \E p \in Peers : Close(p) /\ UNCHANGED <<manager, tracker>>

SpecSession == InitSession /\ [][NextSession]_vars

\* Two connected sessions that receive blocks, and the validator
InitStore ==
    /\ \E i2 \in BOOLEAN :
          client = [p \in {"p1", "p2"} |->
                        ConnectedClient(IF p = "p1" THEN TRUE ELSE i2)]
    /\ hs = [p \in {"p1", "p2"} |-> ConnectedHandshake({})]
    /\ InitShared({})

\* The peers send blocks while the write budget of the model lasts
MayWrite == file_structure.writes < MaxWrites

NextStore ==
    \/ \E p \in Peers, f \in PieceFrames : MayWrite /\ RecvFrame(p, f) /\ UNCHANGED <<manager, tracker>>
    \/ \E p \in Peers : BlockLock(p) /\ UNCHANGED <<manager, tracker>>
    \/ \E p \in Peers, ok \in BOOLEAN : BlockWrite(p, ok) /\ UNCHANGED <<manager, tracker>>
    \/ \E i \in PieceIndices : ValidateStart(i) /\ UNCHANGED <<manager, tracker>>
    \/ \E i \in PieceIndices, hash_ok \in BOOLEAN : ValidateFinish(i, hash_ok) /\ UNCHANGED <<manager, tracker>>

SpecStore == InitStore /\ [][NextStore]_vars

\* One connected, unchoked session with an interested peer: the requests and
\* blocks it receives and the requests the downloader sends through it
InitRange ==
    /\ \E interested \in BOOLEAN :
          client = [p \in {"p1"} |->
                        [ConnectedClient(interested) EXCEPT
                            !.am_choking = FALSE, !.peer_interested = TRUE]]
    /\ hs = [p \in {"p1"} |-> ConnectedHandshake({0})]
    /\ InitShared({0})

RangeFrames == RequestFrames \cup CancelFrames \cup PieceFrames \cup HaveFrames

NextRange ==
    \/ \E p \in Peers, f \in RangeFrames : MaySend(p) /\ MayWrite /\ RecvFrame(p, f) /\ UNCHANGED <<manager, tracker>>
    \/ \E p \in Peers : \E n \in {client[p].request[3], 0} : RequestRead(p, n) /\ UNCHANGED <<manager, tracker>>
    \/ \E p \in Peers, ok \in BOOLEAN : RequestDrain(p, ok) /\ UNCHANGED <<manager, tracker>>
    \/ \E p \in Peers, ok \in BOOLEAN : BlockWrite(p, ok) /\ UNCHANGED <<manager, tracker>>
    \/ \E p \in Peers, request \in SentRequests, cancel \in BOOLEAN :
          SendRequest(p, request, cancel) /\ UNCHANGED <<manager, tracker>>

SpecRange == InitRange /\ [][NextRange]_vars

\* A DownloadInfo as a former session left it: any selection, any pieces
\* downloaded, the count and the flag in step with them
StoredDownloadInfo(selection, have) ==
    [ pieces                 |-> [i \in PieceIndices |->
                                    [NewPiece(i \in have) EXCEPT !.selected = i \in selection]],
      interesting_pieces     |-> selection \ have,
      downloaded_piece_count |-> Cardinality(have),
      complete               |-> (selection \subseteq have) ]

\* The peers a tracker may return, and the peers that may connect to us
TrackerPeers == {{}, {"peer_a"}}

InboundPeers == {"peer_b"}

\* One TorrentManager from __init__ on: run(), stop() and accept_client()
InitManager ==
    /\ \E selection \in SUBSET PieceIndices, have \in SUBSET PieceIndices :
          download_info = StoredDownloadInfo(selection, have)
    /\ client = << >>
    /\ hs = << >>
    /\ statistics = NewStatistics
    /\ file_structure = NewFileStructure
    /\ out = << >>
    /\ err = NoError
    /\ manager = NewManager
    /\ tracker = NewTracker("inet")

RunStep ==
    \/ RunStart /\ UNCHANGED tracker
    \/ \E i \in PieceIndices : \E read \in ReadResults(i) : VerifyRead(read) /\ UNCHANGED tracker
    \/ \E ok \in BOOLEAN, peers \in TrackerPeers : AnnounceReturn(ok, peers) /\ UNCHANGED tracker
    \/ SleepReturn /\ UNCHANGED tracker

StopStep ==
    \/ StopPeerManager /\ UNCHANGED tracker
    \/ StopCancel /\ UNCHANGED tracker
    \/ StopReturn /\ UNCHANGED tracker

NextManager ==
    \/ RunStart /\ UNCHANGED tracker
    \/ \E i \in PieceIndices : \E read \in ReadResults(i) : VerifyRead(read) /\ UNCHANGED tracker
    \/ \E ok \in BOOLEAN, peers \in TrackerPeers : AnnounceReturn(ok, peers) /\ UNCHANGED tracker
    \/ SleepReturn /\ UNCHANGED tracker
    \/ DownloaderReturn /\ UNCHANGED tracker
    \/ \E peer \in InboundPeers : AcceptClient(peer) /\ UNCHANGED tracker
    \/ Stop /\ UNCHANGED tracker
    \/ StopPeerManager /\ UNCHANGED tracker
    \/ StopCancel /\ UNCHANGED tracker
    \/ \E t \in Tasks : TaskFinish(t) /\ UNCHANGED tracker
    \/ StopReturn /\ UNCHANGED tracker

SpecManager == InitManager /\ [][NextManager]_vars

\* The event loop resumes run() and stop() whenever what they await is done;
\* nothing makes a cancelled task end
SpecManagerLive == SpecManager /\ WF_vars(RunStep) /\ WF_vars(StopStep)

\* The clients of the tracker: the host and source port of their datagrams
\* and the fields of their announces; on an IPv6 socket every host is ::1
Host(family, n) ==
    IF family = "inet6" THEN "::1"
    ELSE IF n = 1 THEN "127.0.0.1" ELSE "127.0.0.2"

TrackerClients(family) ==
    { [host |-> Host(family, 1), port |-> 6881, peer_id |-> 1, info_hash |-> "ih_a"],
      [host |-> Host(family, 1), port |-> 6882, peer_id |-> 1, info_hash |-> "ih_a"],
      [host |-> Host(family, 2), port |-> 6881, peer_id |-> 2, info_hash |-> "ih_a"],
      [host |-> Host(family, 2), port |-> 6883, peer_id |-> 2, info_hash |-> "ih_b"] }

AddrOf(c) == <<c.host, 40000 + c.peer_id>>

ConnectionIds == {11, 12}

\* num_want on the wire: 1 and -1
NumWants == {<<0, 0, 0, 1>>, <<255, 255, 255, 255>>}

AnnounceDatagram(connection_id, c, left, event, num_want) ==
    [ length |-> AnnounceLen, action |-> 1, transaction_id |-> 7,
      connection_id |-> connection_id, info_hash |-> c.info_hash,
      peer_id |-> c.peer_id, left |-> left, event |-> event,
      num_want |-> num_want, port |-> c.port ]

Announces(family, connection_ids, lefts, events, num_wants) ==
    { AnnounceDatagram(connection_id, c, left, event, num_want) :
        connection_id \in connection_ids, c \in TrackerClients(family),
        left \in lefts, event \in events, num_want \in num_wants }

\* A datagram of the given length and action, every other field zero
PlainDatagram(length, action) ==
    [ length |-> length, action |-> action, transaction_id |-> 7,
      connection_id |-> 0, info_hash |-> "", peer_id |-> 0, left |-> 0,
      event |-> 0, num_want |-> <<0, 0, 0, 0>>, port |-> 0 ]

ConnectDatagram == PlainDatagram(HeaderLen, 0)

\* Too short for the header, an announce cut short, and a scrape
OtherDatagrams ==
    {PlainDatagram(HeaderLen - 4, 0), PlainDatagram(HeaderLen, 1), PlainDatagram(HeaderLen, 2)}

\* The client a datagram comes from
SenderOf(d, family) ==
    CHOOSE c \in TrackerClients(family) :
        d.action = 1 /\ d.length >= AnnounceLen =>
            c.port = d.port /\ c.peer_id = d.peer_id /\ c.info_hash = d.info_hash

InitTracker ==
    /\ \E family \in {"inet", "inet6"} : tracker = NewTracker(family)
    /\ download_info = NewDownloadInfo({})
    /\ client = << >>
    /\ hs = << >>
    /\ statistics = NewStatistics
    /\ file_structure = NewFileStructure
    /\ out = << >>
    /\ err = NoError
    /\ manager = NewManager

\* The announces of every client, seeding or leeching, stopping or not, with
\* the first connection_id
TrackerAnnounces == Announces(tracker.family, {11}, {0, 1}, {0, 3}, NumWants)

\* One tracker and its clients, the clock standing still
NextTracker ==
    \/ \E connection_id \in ConnectionIds :
          DatagramReceived(ConnectDatagram,
                           AddrOf(SenderOf(ConnectDatagram, tracker.family)), connection_id)
    \/ \E d \in TrackerAnnounces :
          DatagramReceived(d, AddrOf(SenderOf(d, tracker.family)), 0)
    \/ \E d \in OtherDatagrams :
          DatagramReceived(d, AddrOf(SenderOf(d, tracker.family)), 0)

SpecTracker == InitTracker /\ [][NextTracker]_vars

\* How far the clock moves at a time: to the second before the expiration
\* of a connection_id, to it, and by one second
Seconds == {1, expiration_duration - 1, expiration_duration}

\* The announces of the first client with any connection_id
ConnectAnnounces ==
    {d \in Announces(tracker.family, ConnectionIds, {1}, {0, 3}, {<<0, 0, 0, 0>>}) :
        d.port = 6881 /\ d.peer_id = 1}

\* One tracker and one client, the clock moving
NextConnect ==
    \/ \E connection_id \in ConnectionIds :
          DatagramReceived(ConnectDatagram,
                           AddrOf(SenderOf(ConnectDatagram, tracker.family)), connection_id)
    \/ \E d \in ConnectAnnounces :
          DatagramReceived(d, AddrOf(SenderOf(d, tracker.family)), 0)
    \/ \E seconds \in Seconds : Tick(seconds)

SpecConnect == InitTracker /\ [][NextConnect]_vars

\* The announces of the first client with their last byte missing
CutAnnounces == {[d EXCEPT !.length = AnnounceLen - 1] : d \in ConnectAnnounces}

\* One tracker and one client that also sends what the tracker rejects, the
\* clock moving
NextReject ==
    \/ \E connection_id \in ConnectionIds :
          DatagramReceived(ConnectDatagram,
                           AddrOf(SenderOf(ConnectDatagram, tracker.family)), connection_id)
    \/ \E d \in ConnectAnnounces :
          DatagramReceived(d, AddrOf(SenderOf(d, tracker.family)), 0)
    \/ \E d \in CutAnnounces \cup OtherDatagrams :
          DatagramReceived(d, AddrOf(SenderOf(d, tracker.family)), 0)
    \/ \E seconds \in Seconds : Tick(seconds)

SpecReject == InitTracker /\ [][NextReject]_vars

\* The torrent ih_a after n leechers have announced, each with its own
\* peer_id from its own port
Swarm(n) ==
    [NewTorrentData("ih_a") EXCEPT
        !.peers = [k \in 1 .. n |-> [peer_id |-> 100 + k, ip |-> "127.0.0.1",
                                     port |-> 7000 + k, is_seeder |-> FALSE]],
        !.leechers_count = n]

\* A tracker that has answered one connect and registered a swarm of any
\* size up to MaxSwarm
InitSwarm ==
    /\ \E n \in 0 .. MaxSwarm :
          tracker = [handle_connect(NewTracker("inet"), 7, <<"127.0.0.1", 40001>>, 11)
                        EXCEPT !.torrents = DictSet(EmptyDict, "ih_a", Swarm(n)),
                               !.sent = << >>]
    /\ download_info = NewDownloadInfo({})
    /\ client = << >>
    /\ hs = << >>
    /\ statistics = NewStatistics
    /\ file_structure = NewFileStructure
    /\ out = << >>
    /\ err = NoError
    /\ manager = NewManager

\* The announces of the first client, with num_want 0, 1 and -1
SwarmAnnounces ==
    {d \in Announces(tracker.family, {11}, {0, 1}, {0, 3},
                     {<<0, 0, 0, 0>>, <<0, 0, 0, 1>>, <<255, 255, 255, 255>>}) :
        d.port = 6881 /\ d.peer_id = 1}

\* One more client announces to a tracker that has a swarm
NextSwarm ==
    \E d \in SwarmAnnounces : DatagramReceived(d, AddrOf(SenderOf(d, tracker.family)), 0)

SpecSwarm == InitSwarm /\ [][NextSwarm]_vars

\* One TorrentManager from __init__ on and one inbound connection: the
\* acceptor hands the session to the manager once accept() has returned the
\* manager's info_hash, and the peer manager then confirms it
InitAdvertise ==
    /\ \E selection \in SUBSET PieceIndices, have \in SUBSET PieceIndices :
          download_info = StoredDownloadInfo(selection, have)
    /\ client = [p \in {"p1"} |-> NewClient(NoPeerId)]
    /\ hs = [p \in {"p1"} |-> NewHandshake(NoPeerId)]
    /\ statistics = NewStatistics
    /\ file_structure = NewFileStructure
    /\ out = << >>
    /\ err = NoError
    /\ manager = NewManager
    /\ tracker = NewTracker("inet")

NextAdvertise ==
    \/ RunStart /\ UNCHANGED tracker
    \/ \E i \in PieceIndices : \E read \in ReadResults(i) : VerifyRead(read) /\ UNCHANGED tracker
    \/ \E ok \in BOOLEAN, peers \in TrackerPeers : AnnounceReturn(ok, peers) /\ UNCHANGED tracker
    \/ SleepReturn /\ UNCHANGED tracker
    \/ \E p \in Peers : Accept(p) /\ UNCHANGED <<manager, tracker>>
    \/ \E p \in Peers, r \in ProtocolReads : AcceptReceiveProtocol(p, r) /\ UNCHANGED <<manager, tracker>>
    \/ \E p \in Peers, r \in InfoReads : AcceptReceiveInfo(p, r) /\ UNCHANGED <<manager, tracker>>
    \/ \E p \in Peers, peer \in InboundPeers :
          /\ client[p].pc = "accepted"
          /\ routed_here(p)
          /\ AcceptClient(peer)
          /\ UNCHANGED tracker
    \/ \E p \in Peers :
          /\ manager.accepted # {}
          /\ ConfirmInfoHash(p)
          /\ UNCHANGED <<manager, tracker>>

SpecAdvertise == InitAdvertise /\ [][NextAdvertise]_vars

Spec == SpecSession

-----------------------------------------------------------------------------
(* Claims about blocks and the file-store lock (SpecStore)                 *)

\* The step is the receive loop of p reading and handling the frame f
Received(p, f) ==
    /\ client[p].pc = "run"
    /\ client'[p].last = receive_message(f)
    /\ RecvFrame(p, f)

\* The coordinates a piece frame carries
BlockOf(f) == <<UnpackIAt(f.head, 1), UnpackIAt(f.head, 5), PayloadLen(f) - 8>>

\* A piece frame with a non-empty block inside the piece and the torrent
GoodBlock(f) ==
    /\ f.id = 7
    /\ PayloadLen(f) > 8
    /\ BlockOf(f)[1] \in PieceIndices
    /\ BlockOf(f)[2] + BlockOf(f)[3] <= piece_length
    /\ BlockOf(f)[1] * piece_length + BlockOf(f)[2] + BlockOf(f)[3] <= total_size

PieceFlagsFree(i) ==
    ~download_info.pieces[i].validating /\ ~download_info.pieces[i].downloaded

\* Nothing of the download changes in the step: store, blocks, both counters
DownloadUntouched(p) ==
    /\ file_structure'.written = file_structure.written
    /\ file_structure'.writes = file_structure.writes
    /\ download_info' = download_info
    /\ client'[p].downloaded = client[p].downloaded
    /\ statistics' = statistics

\* The step adds the block rq to both counters and goes on to the write
BlockCounted(p, rq) ==
    /\ client'[p].downloaded = client[p].downloaded + rq[3]
    /\ statistics'.total_downloaded = statistics.total_downloaded + rq[3]
    /\ client'[p].pc = "block_write"
    /\ client'[p].request = rq
    /\ file_structure'.lock = p
    /\ file_structure'.writes = file_structure.writes
    /\ download_info' = download_info

\* The step writes the block rq at piece*piece_length+begin and marks it
BlockStored(p, rq) ==
    /\ file_structure'.written =
           file_structure.written \cup {<<rq[1] * piece_length + rq[2], rq[3]>>}
    /\ file_structure'.writes = file_structure.writes + 1
    /\ download_info'.pieces[rq[1]].blocks =
           download_info.pieces[rq[1]].blocks \cup MarkedBlocks(rq[1], rq[2], rq[3])
    /\ \A j \in PieceIndices \ {rq[1]} : download_info'.pieces[j] = download_info.pieces[j]
    /\ client'[p].downloaded = client[p].downloaded
    /\ statistics' = statistics

\* C1 as stated: every received piece message with a block in range reaches
\* the file-store lock, where the flags of the piece alone decide: so a block
\* for a piece that is neither validating nor downloaded is never left out.
C1_EveryBlockDecidedByPieceFlags ==
    [][\A p \in Peers : \A f \in PieceFrames :
          (RecvFrame(p, f) /\ GoodBlock(f) /\ PieceFlagsFree(BlockOf(f)[1]))
              => client'[p].pc \in {"block_lock", "block_write"}]_vars

\* C1 amended: a received piece message is dropped with no effect when
\* am_interested is false or its block is empty; otherwise, with the lock
\* held, the block is counted on both counters iff the piece is neither
\* validating nor downloaded (else nothing changes), and when the awaited
\* write returns it is stored at piece*piece_length+begin and marked present;
\* nothing else writes to the store or adds to the counters.
C1_BlockWrittenIffInterestedAndFree ==
    [][\A p \in Peers :
          /\ \A f \in PieceFrames : (RecvFrame(p, f) /\ GoodBlock(f)) =>
                IF ~client[p].am_interested
                THEN DownloadUntouched(p) /\ client'[p].pc = "run"
                ELSE IF file_structure.lock # "free"
                THEN DownloadUntouched(p) /\ client'[p].pc = "block_lock"
                ELSE IF PieceFlagsFree(BlockOf(f)[1])
                THEN BlockCounted(p, BlockOf(f))
                ELSE DownloadUntouched(p) /\ client'[p].pc = "run"
          /\ \A f \in PieceFrames : (RecvFrame(p, f) /\ ~GoodBlock(f)) => DownloadUntouched(p)
          /\ BlockLock(p) =>
                IF PieceFlagsFree(client[p].request[1])
                THEN BlockCounted(p, client[p].request)
                ELSE DownloadUntouched(p) /\ client'[p].pc = "run"
          /\ BlockWrite(p, TRUE) => BlockStored(p, client[p].request)
          /\ BlockWrite(p, FALSE) =>
                /\ file_structure'.written = file_structure.written
                /\ download_info' = download_info
          /\ (client'[p].downloaded # client[p].downloaded) =>
                /\ client[p].am_interested
                /\ PieceFlagsFree(client'[p].request[1])
                /\ client'[p].pc = "block_write"
          /\ (file_structure'.writes # file_structure.writes) =>
                \E q \in Peers : client[q].pc = "block_write" /\ client'[q].pc = "run"
      ]_vars

\* C1 witness: a block of p1 was counted, stored at its offset and marked,
\* and p2, not interested, has received a piece message that left no trace
C1_Witness ==
    /\ client["p1"].downloaded = MAX_REQUEST_LENGTH
    /\ client["p1"].pc = "run"
    /\ file_structure.written = {<<MAX_REQUEST_LENGTH, MAX_REQUEST_LENGTH>>}
    /\ download_info.pieces[0].blocks = MarkedBlocks(0, MAX_REQUEST_LENGTH, MAX_REQUEST_LENGTH)
    /\ ~client["p2"].am_interested
    /\ client["p2"].last = "piece"
    /\ client["p2"].downloaded = 0

\* Sessions between the check under the lock and the end of the write
InCriticalSection == {p \in Peers : client[p].pc = "block_write"}

C2_Inv ==
    /\ Cardinality(InCriticalSection) <= 1
    /\ \A p \in InCriticalSection :
          /\ file_structure.lock = p
          /\ PieceFlagsFree(client[p].request[1])
    /\ \A i \in PieceIndices :
          download_info.pieces[i].validating =>
              /\ file_structure.lock = "validator"
              /\ InCriticalSection = {}

C2_Step ==
    \A i \in PieceIndices :
        download_info.pieces[i].validating =>
            /\ file_structure'.writes = file_structure.writes
            /\ file_structure'.written = file_structure.written
            /\ download_info'.pieces[i].blocks \subseteq download_info.pieces[i].blocks

\* C2: the check of the piece flags, the write and the blocks_present update
\* of a block are one critical section under the file-store lock: at most one
\* session is inside it, the session inside holds the lock and its piece is
\* neither validating nor downloaded, and from the start of a validation to
\* its result nothing is written to the store and no block is marked.
C2_OneCriticalSection == []C2_Inv /\ [][C2_Step]_vars

\* C2 witness: a piece is being validated while a session that received a
\* late block for that very piece waits for the lock
C2_Witness ==
    \E i \in PieceIndices : \E p \in Peers :
        /\ download_info.pieces[i].validating
        /\ client[p].pc = "block_lock"
        /\ client[p].request[1] = i

-----------------------------------------------------------------------------
(* Claims about requests (SpecSession)                                     *)

\* The coordinates a request frame carries
RequestOf(f) == <<UnpackIAt(f.head, 1), UnpackIAt(f.head, 5), UnpackIAt(f.head, 9)>>

\* A request frame whose range is inside the piece and the torrent
InRangeRequest(f) ==
    /\ f.id = 6
    /\ PayloadLen(f) = 12
    /\ RequestOf(f)[1] \in PieceIndices
    /\ RequestOf(f)[2] + RequestOf(f)[3] <= piece_length
    /\ RequestOf(f)[1] * piece_length + RequestOf(f)[2] + RequestOf(f)[3] <= total_size

\* The piece frames the step wrote to p
PiecesWritten(p, o) == SelectSeq(o, LAMBDA w : w[1] = p /\ w[2].type = "piece")

UploadUntouched(p) ==
    /\ client'[p].uploaded = client[p].uploaded
    /\ statistics' = statistics

\* The step in which _send_block sends its answer
Answers(p) == client[p].pc = "request_read" /\ client'[p].pc = "request_drain"

\* C3 as stated: whenever a request is answered the upload counters grow.
C3_AnswerGrowsCounters ==
    [][\A p \in Peers :
          Answers(p) =>
              /\ client'[p].uploaded > client[p].uploaded
              /\ statistics'.total_uploaded > statistics.total_uploaded]_vars

\* C3 amended: an in-range request of length <= 2^17 is dropped with no frame,
\* no counter change and the session alive when we are choking, the peer is
\* not interested or the piece is not downloaded; otherwise, when the awaited
\* read returns, exactly one piece frame with the same piece index and begin
\* is written and both upload counters are increased by the requested length
\* (so they stay as they are for a request of length 0); no other step
\* writes a piece frame.
C3_RequestAnsweredOrDropped ==
    [][\A p \in Peers :
          /\ \A f \in RequestFrames :
                (Received(p, f) /\ InRangeRequest(f) /\ RequestOf(f)[3] <= MAX_REQUEST_LENGTH) =>
                    /\ out' = << >>
                    /\ err' = NoError
                    /\ UploadUntouched(p)
                    /\ IF \/ client[p].am_choking
                          \/ ~client[p].peer_interested
                          \/ ~download_info.pieces[RequestOf(f)[1]].downloaded
                       THEN client'[p].pc = "run"
                       ELSE /\ client'[p].pc = "request_read"
                            /\ client'[p].request = RequestOf(f)
          /\ Answers(p) =>
                /\ Len(out') = 1
                /\ Len(PiecesWritten(p, out')) = 1
                /\ out'[1][2].words[1] = client[p].request[1]
                /\ out'[1][2].words[2] = client[p].request[2]
                /\ client'[p].uploaded = client[p].uploaded + client[p].request[3]
                /\ statistics'.total_uploaded =
                       statistics.total_uploaded + client[p].request[3]
          /\ Len(PiecesWritten(p, out')) # 0 => Answers(p)
      ]_vars

\* C3 witness: the request (0, 0, 2^17) was answered by one piece frame
C3_Witness ==
    /\ out = << <<"p1", Written("piece", <<0, 0, MAX_REQUEST_LENGTH>>)>> >>
    /\ client["p1"].uploaded = MAX_REQUEST_LENGTH
    /\ statistics.total_uploaded = MAX_REQUEST_LENGTH
    /\ client["p1"].pc = "request_drain"

\* C4 as stated: a request longer than 2^17 whose range is in the piece is
\* rejected silently, the session going on to the next frame.
C4_LongRequestRejectedSilently ==
    [][\A p \in Peers : \A f \in RequestFrames :
          (RecvFrame(p, f) /\ InRangeRequest(f) /\ RequestOf(f)[3] > MAX_REQUEST_LENGTH)
              => (out' = << >> /\ client'[p].pc = "run")]_vars

\* C4 amended: a request longer than 2^17 whose range is in the piece raises
\* ValueError, which ends the receive loop: no piece frame is written and no
\* counter changes; a request of exactly 2^17 is not rejected for its length.
C4_LongRequestEndsSession ==
    [][\A p \in Peers : \A f \in RequestFrames :
          (Received(p, f) /\ InRangeRequest(f)) =>
              IF RequestOf(f)[3] > MAX_REQUEST_LENGTH
              THEN /\ err' = "ValueError: Requested too many bytes"
                   /\ client'[p].pc = "stopped"
                   /\ out' = << >>
                   /\ UploadUntouched(p)
              ELSE /\ err' = NoError
                   /\ client'[p].pc \in {"run", "request_read"}
      ]_vars

\* C4 witness: the receive loop has ended on a request that was too long
C4_Witness ==
    /\ err = "ValueError: Requested too many bytes"
    /\ client["p1"].pc = "stopped"
    /\ client["p1"].last = "request"
    /\ client["p1"].connected

-----------------------------------------------------------------------------
(* Claims about the handshake and the flags                                *)

HandshakeChecksPassed(p) ==
    /\ hs[p].pstrlen = 19
    /\ hs[p].pstr = "BitTorrent protocol"
    /\ hs[p].peer_id # OurPeerId
    /\ hs[p].expected # NoPeerId => hs[p].peer_id = hs[p].expected
    /\ hs[p].direction = "connect" => hs[p].info_hash = OurInfoHash

C5_Inv ==
    \A p \in Peers :
        /\ client[p].connected => HandshakeChecksPassed(p)
        /\ client[p].pc = "failed" => ~client[p].connected

C5_Step ==
    \A p \in Peers :
        (client[p].pc \in {"connect_protocol", "connect_info"} /\ client'[p].pc # client[p].pc) =>
            \/ /\ client'[p].pc \in {"connect_info", "run"}
               /\ err' = NoError
            \/ /\ client'[p].pc = "closed"
               /\ err' = NoError
               /\ ~client'[p].connected
            \/ /\ client'[p].pc = "failed"
               /\ err' # NoError
               /\ client'[p].writer = "closed"
               /\ ~client'[p].connected

\* C5: a session is connected only if the header it received is
\* 0x13 "BitTorrent protocol", the peer_id it received is not ours and is the
\* expected one when one was known, and, for connect(), the info_hash it
\* received is ours; a failed check in connect() raises, closes the writer and
\* leaves the session unconnected for good.
C5_ConnectedOnlyAfterChecks == []C5_Inv /\ [][C5_Step]_vars

\* C5 witness: connect() succeeded with a peer whose peer_id was known
C5_Witness ==
    /\ client["p1"].connected
    /\ hs["p1"].direction = "connect"
    /\ hs["p1"].expected = "id_a"
    /\ hs["p1"].peer_id = "id_a"

\* The frames of the given types the step wrote to p, in order
FramesWritten(p, o, types) ==
    LET mine == SelectSeq(o, LAMBDA w : w[1] = p /\ w[2].type \in types)
    IN  [k \in 1 .. Len(mine) |-> mine[k][2].type]

\* C6: on a connected session a choke/unchoke (interested/not-interested)
\* frame is written exactly in the steps that change am_choking
\* (am_interested), one frame per change, naming the new value; a step that
\* leaves the flag as it is writes none. Each written frame thus follows a
\* flip of the flag, so the frames of one kind alternate.
C6_FrameExactlyOnFlip ==
    [][\A p \in Peers :
          /\ FramesWritten(p, out', {"choke", "unchoke"}) =
                IF client'[p].am_choking # client[p].am_choking
                THEN << IF client'[p].am_choking THEN "choke" ELSE "unchoke" >>
                ELSE << >>
          /\ FramesWritten(p, out', {"interested", "not_interested"}) =
                IF client'[p].am_interested # client[p].am_interested
                THEN << IF client'[p].am_interested THEN "interested" ELSE "not_interested" >>
                ELSE << >>
          /\ \A v \in BOOLEAN :
                (SetAmChoking(p, v) /\ client[p].connected) => client'[p].am_choking = v
          /\ \A v \in BOOLEAN :
                (SetAmInterested(p, v) /\ client[p].connected) => client'[p].am_interested = v
      ]_vars

\* C6 witness: am_choking was set to false and one unchoke frame was written
C6_Witness ==
    /\ out = << <<"p1", Written("unchoke", << >>)>> >>
    /\ ~client["p1"].am_choking
    /\ client["p1"].connected

FlagsOf(c) == <<c.am_choking, c.am_interested, c.peer_choking, c.peer_interested>>

InitialFlags == <<TRUE, FALSE, TRUE, FALSE>>

HandshakePcs ==
    {"new", "connect_protocol", "connect_info", "accept_protocol", "accept_info",
     "accepted", "failed"}

C7_Inv ==
    \A p \in Peers : client[p].pc \in HandshakePcs => FlagsOf(client[p]) = InitialFlags

C7_Step ==
    \A p \in Peers :
        /\ (~client[p].connected /\ client'[p].connected) => FlagsOf(client'[p]) = InitialFlags
        /\ FlagsOf(client'[p]) # FlagsOf(client[p]) =>
              /\ client[p].connected
              /\ \/ \E v \in BOOLEAN : SetAmChoking(p, v)
                 \/ \E v \in BOOLEAN : SetAmInterested(p, v)
                 \/ \E f \in StateFrames : RecvFrame(p, f)

\* C7: a new session has am_choking, not am_interested, peer_choking, not
\* peer_interested; the flags have these values all through the handshake and
\* at the moment the session becomes connected, and only a setter or a
\* received state frame on the connected session changes them.
C7_InitialFlagsKept == []C7_Inv /\ [][C7_Step]_vars

\* C7 witness: an accepted session has just been confirmed, its flags as built
C7_Witness ==
    /\ client["p1"].connected
    /\ hs["p1"].direction = "accept"
    /\ client["p1"].last = "none"
    /\ Len(out) >= 1
    /\ FlagsOf(client["p1"]) = InitialFlags

-----------------------------------------------------------------------------
(* Claims about have and bitfield (SpecSession)                            *)

WellFormedBitfield(f) ==
    /\ PayloadLen(f) = CeilDiv(piece_count, 8)
    /\ \A i \in piece_count .. (8 * PayloadLen(f) - 1) : ~BitOf(f.head, i)

OwnersOf(di) == [i \in PieceIndices |-> di.pieces[i].owners]

\* C8: a received bitfield is handled without error iff its payload has
\* ceil(piece_count/8) bytes and no spare bit set; then the pieces whose bits
\* are set, and no others, are added to piece_owned and get the peer as an
\* owner; a bitfield of another length or with a spare bit set raises an error
\* that ends the receive loop.
C8_BitfieldAcceptedIffWellFormed ==
    [][\A p \in Peers : \A f \in BitfieldFrames :
          Received(p, f) =>
              /\ (err' = NoError) <=> WellFormedBitfield(f)
              /\ (err' = NoError) =>
                    /\ client'[p].pc = "run"
                    /\ \A i \in PieceIndices :
                          /\ client'[p].piece_owned[i] =
                                 (client[p].piece_owned[i] \/ BitOf(f.head, i))
                          /\ download_info'.pieces[i].owners =
                                 download_info.pieces[i].owners
                                     \cup (IF BitOf(f.head, i) THEN {p} ELSE {})
              /\ (err' # NoError) => client'[p].pc = "stopped"
      ]_vars

\* C8 witness: the bitfield 0xC0 was accepted and the peer owns pieces 0 and 1
C8_Witness ==
    /\ client["p1"].last = "bitfield"
    /\ err = NoError
    /\ client["p1"].pc = "run"
    /\ client["p1"].piece_owned[0] /\ client["p1"].piece_owned[1]
    /\ "p1" \in download_info.pieces[0].owners
    /\ "p1" \in download_info.pieces[1].owners

\* C9: a bitfield received after the session has processed a have or a
\* bitfield is not accepted: it raises an error.
C9_BitfieldOnlyFirst ==
    [][\A p \in Peers : \A f \in BitfieldFrames :
          (Received(p, f) /\ client[p].seen_have) => err' # NoError]_vars

\* C10: after have(i) with i < piece_count the peer owns piece i and is among
\* its owners; am_interested is true afterwards when i is interesting (an
\* interested frame is written only if it was false) and unchanged when it is
\* not; no other flag and no other piece changes.
C10_HaveMarksOwner ==
    [][\A p \in Peers : \A i \in PieceIndices :
          Received(p, Frame(4, PackI(i), 0)) =>
              /\ err' = NoError
              /\ client'[p].pc = "run"
              /\ client'[p].piece_owned = [client[p].piece_owned EXCEPT ![i] = TRUE]
              /\ OwnersOf(download_info') =
                     [OwnersOf(download_info) EXCEPT ![i] = @ \cup {p}]
              /\ IF i \in download_info.interesting_pieces
                 THEN /\ client'[p].am_interested
                      /\ out' = IF client[p].am_interested THEN << >>
                                ELSE << <<p, Written("interested", << >>)>> >>
                 ELSE /\ client'[p].am_interested = client[p].am_interested
                      /\ out' = << >>
              /\ client'[p].am_choking = client[p].am_choking
              /\ client'[p].peer_choking = client[p].peer_choking
              /\ client'[p].peer_interested = client[p].peer_interested
      ]_vars

\* C10 witness: have(1) for an interesting piece made us interested
C10_Witness ==
    /\ client["p1"].last = "have"
    /\ out = << <<"p1", Written("interested", << >>)>> >>
    /\ client["p1"].am_interested
    /\ client["p1"].piece_owned[1]
    /\ ~client["p1"].piece_owned[0]
    /\ "p1" \in download_info.pieces[1].owners

-----------------------------------------------------------------------------
(* Claims about state frames and the frame length (SpecSession)            *)

\* C11: a choke, unchoke, interested or not-interested frame with an empty
\* payload sets peer_choking or peer_interested to the value it names and
\* changes nothing else of the session, the download or the counters, and no
\* frame is written; with a non-empty payload it raises an error that ends
\* the receive loop, both peer flags left as they were.
C11_StateFrameSetsPeerFlag ==
    [][\A p \in Peers : \A f \in StateFrames :
          Received(p, f) =>
              IF PayloadLen(f) = 0
              THEN /\ err' = NoError
                   /\ out' = << >>
                   /\ client'[p] =
                          [client[p] EXCEPT
                              !.peer_choking = IF f.id \in {0, 1} THEN f.id = 0 ELSE @,
                              !.peer_interested = IF f.id \in {2, 3} THEN f.id = 2 ELSE @,
                              !.last = MessageType(f.id)]
                   /\ download_info' = download_info
                   /\ statistics' = statistics
                   /\ file_structure' = file_structure
              ELSE /\ err' = "ValueError: Invalid payload length"
                   /\ out' = << >>
                   /\ client'[p].pc = "stopped"
                   /\ client'[p].peer_choking = client[p].peer_choking
                   /\ client'[p].peer_interested = client[p].peer_interested
      ]_vars

\* C11 witness: after unchoke and interested were received, a state frame
\* with a payload byte has ended the loop and left both flags as they were
C11_Witness ==
    /\ err = "ValueError: Invalid payload length"
    /\ client["p1"].pc = "stopped"
    /\ client["p1"].last \in {"choke", "not_interested"}
    /\ ~client["p1"].peer_choking
    /\ client["p1"].peer_interested

\* C12: a frame whose length prefix is greater than 2^18 raises ValueError,
\* which ends the receive loop, whatever bytes follow the prefix and with no
\* change to the session, the download, the counters or the store; a frame
\* of 2^18 bytes or fewer never raises that error.
C12_OversizeFrameFatal ==
    [][\A p \in Peers : \A f \in SessionFrames :
          Received(p, f) =>
              IF f.length > MAX_MESSAGE_LENGTH
              THEN /\ err' = "ValueError: Message length is too big"
                   /\ out' = << >>
                   /\ client'[p] =
                          [client[p] EXCEPT !.pc = "stopped",
                                            !.last = "ValueError: Message length is too big"]
                   /\ download_info' = download_info
                   /\ statistics' = statistics
                   /\ file_structure' = file_structure
              ELSE err' # "ValueError: Message length is too big"
      ]_vars

\* C12 witness: an unchoked session was ended by an oversize frame, its
\* flags as they were
C12_Witness ==
    /\ err = "ValueError: Message length is too big"
    /\ client["p1"].pc = "stopped"
    /\ client["p1"].last = "ValueError: Message length is too big"
    /\ ~client["p1"].peer_choking

-----------------------------------------------------------------------------
(* Claims about block coordinates (SpecRange)                              *)

\* The BlockRequest invariant
InRange(rq) ==
    /\ rq[1] < piece_count
    /\ rq[2] + rq[3] <= piece_length
    /\ rq[1] * piece_length + rq[2] + rq[3] <= total_size

\* The coordinates of the request and cancel frames the step wrote
RequestsWritten(o) ==
    { <<UnpackIAt(o[k][2].words, 1), UnpackIAt(o[k][2].words, 5), UnpackIAt(o[k][2].words, 9)>> :
        k \in {j \in 1 .. Len(o) : o[j][2].type \in {"request", "cancel"}} }

\* Nothing is sent, read or written in the step
NothingDone(p) ==
    /\ out' = << >>
    /\ client'[p].pc \notin {"request_read", "block_lock", "block_write"}
    /\ DownloadUntouched(p)
    /\ UploadUntouched(p)

\* C13 as stated: a received block whose coordinates are out of range
\* always raises an error.
C13_OutOfRangeBlockRaises ==
    [][\A p \in Peers : \A f \in PieceFrames :
          (Received(p, f) /\ PayloadLen(f) >= 8 /\ ~InRange(BlockOf(f)))
              => err' # NoError]_vars

\* C13 amended: every request or cancel written by send_request, every
\* received request that is answered and every received block that is
\* written has piece_index < piece_count, begin + length <= piece_length and
\* piece_index * piece_length + begin + length <= total_size; for an
\* out-of-range coordinate nothing is sent, read or written, and an
\* IndexError is raised by send_request, by a received request or cancel, and
\* by a received block when am_interested is true; a session that is not
\* interested drops an out-of-range block without an error.
C13_CoordinatesInRange ==
    [][\A p \in Peers :
          /\ \A rq \in RequestsWritten(out') : InRange(rq)
          /\ Answers(p) => InRange(client[p].request)
          /\ \A ok \in BOOLEAN : BlockWrite(p, ok) => InRange(client[p].request)
          /\ file_structure'.written # file_structure.written => BlockWrite(p, TRUE)
          /\ \A rq \in SentRequests : \A cancel \in BOOLEAN :
                (SendRequest(p, rq, cancel) /\ ~InRange(rq)) =>
                    /\ err' \in {"IndexError: Piece index out of range",
                                 "IndexError: Position in piece out of range"}
                    /\ out' = << >>
                    /\ client' = client
          /\ \A f \in RequestFrames \cup CancelFrames :
                (Received(p, f) /\ PayloadLen(f) = 12 /\ ~InRange(RequestOf(f))) =>
                    /\ err' \in {"IndexError: Piece index out of range",
                                 "IndexError: Position in piece out of range"}
                    /\ client'[p].pc = "stopped"
                    /\ NothingDone(p)
          /\ \A f \in PieceFrames :
                (Received(p, f) /\ PayloadLen(f) >= 8 /\ ~InRange(BlockOf(f))) =>
                    /\ NothingDone(p)
                    /\ IF client[p].am_interested
                       THEN /\ err' \in {"IndexError: Piece index out of range",
                                         "IndexError: Position in piece out of range"}
                            /\ client'[p].pc = "stopped"
                       ELSE /\ err' = NoError
                            /\ client'[p].pc = "run"
      ]_vars

\* C13 witness: with a block written and a request answered, send_request
\* has refused a request that runs past the end of the torrent
C13_Witness ==
    /\ err = "IndexError: Position in piece out of range"
    /\ out = << >>
    /\ client["p1"].pc = "run"
    /\ client["p1"].uploaded > 0
    /\ file_structure.writes > 0

-----------------------------------------------------------------------------
(* Claims about startup verification (SpecManager)                         *)

\* _verify_existing_data has returned
VerificationDone == manager.pc \notin {"new", "verify"}

SelectedPieces == {i \in PieceIndices : download_info.pieces[i].selected}

DownloadedPieces == {i \in PieceIndices : download_info.pieces[i].downloaded}

\* The store returned exactly real_piece_length(i) bytes with the piece's SHA-1
GoodRead(i) ==
    /\ ~manager.data[i].raised
    /\ manager.data[i].length = get_real_piece_length(i)
    /\ Sha1([length |-> manager.data[i].length, content |-> manager.data[i].content])
           = piece_hash(i)

\* C14: when startup verification has finished, a selected piece is
\* downloaded iff the store returned exactly real_piece_length bytes whose
\* SHA-1 is the piece's hash; every other selected piece has its content
\* reset and is in interesting_pieces, and interesting_pieces holds nothing
\* else.
C14_VerifiedIffGoodRead ==
    VerificationDone =>
        /\ \A i \in SelectedPieces : download_info.pieces[i].downloaded <=> GoodRead(i)
        /\ \A i \in SelectedPieces :
              ~GoodRead(i) =>
                  /\ download_info.pieces[i].blocks = {}
                  /\ i \in download_info.interesting_pieces
        /\ download_info.interesting_pieces = {i \in SelectedPieces : ~GoodRead(i)}

\* C14 witness: of two selected pieces that a former session had both
\* downloaded, verification found piece 0 on disk and piece 1 truncated
C14_Witness ==
    /\ VerificationDone
    /\ {0, 1} \subseteq SelectedPieces
    /\ GoodRead(0)
    /\ manager.data[1].length = get_real_piece_length(1) - 1
    /\ download_info.pieces[0].downloaded
    /\ ~download_info.pieces[1].downloaded
    /\ download_info.interesting_pieces = {1}

\* C15: downloaded_piece_count is the number of pieces whose downloaded flag
\* is true, at every point where run() can be observed.
C15_CountMatchesFlags ==
    download_info.downloaded_piece_count = Cardinality(DownloadedPieces)

\* C16: once startup verification has finished, complete is true iff every
\* selected piece is downloaded, for every selection.
C16_CompleteIffSelectedDownloaded ==
    VerificationDone =>
        (download_info.complete <=> SelectedPieces \subseteq DownloadedPieces)

-----------------------------------------------------------------------------
(* Claims about run() and stop() (SpecManager, SpecManagerLive)            *)

\* Peer work begins in the step: peers are dialed, the tasks are started,
\* the peer manager is invoked, the downloader runs, or an inbound session
\* is taken over
PeerWorkBegins ==
    \/ manager'.started # manager.started
    \/ manager'.executors # manager.executors
    \/ manager'.accepted # manager.accepted

\* C17: peer work begins only when startup verification has finished and a
\* try_to_announce(started) has returned success.
C17_PeerWorkAfterStarted ==
    [][PeerWorkBegins => (VerificationDone /\ manager'.announced)]_vars

\* C18: a failed started announce sends run() to its sleep, and from the
\* sleep run() always comes back to announce again, any number of times; a
\* successful one makes run(), in the same stretch, dial the peers the
\* tracker returned, start its tasks and run the downloader, so a success is
\* always followed by the downloader running.
C18_RetriesUntilStarted ==
    /\ [][\A ok \in BOOLEAN : \A peers \in TrackerPeers :
              AnnounceReturn(ok, peers) =>
                  IF ok
                  THEN /\ manager'.dialed = peers
                       /\ manager'.executors = Executors
                       /\ manager'.started =
                              {"connect_to_peers", "executors", "invoke", "downloader"}
                       /\ manager'.pc = "downloader_run"
                  ELSE /\ manager'.pc = "sleep"
                       /\ manager'.started = manager.started
                       /\ manager'.dialed = manager.dialed]_vars
    /\ ((manager.pc = "sleep") ~> (manager.pc = "announce"))
    /\ (manager.announced ~> ("downloader" \in manager.started))

\* C18 witness: after a failed attempt and its sleep, an attempt succeeded:
\* the returned peer is dialed and the downloader runs
C18_Witness ==
    /\ manager.retried
    /\ manager.announced
    /\ manager.pc = "downloader_run"
    /\ manager.peers = {"peer_a"}
    /\ manager.dialed = {"peer_a"}

\* The position of a component in the order of stopping, 0 when not stopped
StoppedAt(x) ==
    IF \E k \in 1 .. Len(manager.stopped) : manager.stopped[k] = x
    THEN CHOOSE k \in 1 .. Len(manager.stopped) : manager.stopped[k] = x
    ELSE 0

StoppedAfter(x, y) == StoppedAt(x) # 0 => (StoppedAt(y) # 0 /\ StoppedAt(y) < StoppedAt(x))

IsPrefix(a, b) == Len(a) <= Len(b) /\ \A k \in 1 .. Len(a) : a[k] = b[k]

\* C19 as stated: the downloader, then the peer manager, then the
\* announcer, then the uploader.
C19_AnnouncerBeforeUploader ==
    /\ StoppedAfter("peer_manager", "downloader")
    /\ StoppedAfter("announcer", "peer_manager")
    /\ StoppedAfter("uploader", "announcer")

\* C19 amended: stop() stops the downloader, then the peer manager, then
\* cancels the tasks run() has started in the reverse of the order they were
\* started in: the speed measurer, then the uploader, then the announcer;
\* no task is cancelled before the peer manager has been stopped.
C19_ShutdownOrder ==
    /\ IsPrefix(manager.stopped,
                <<"downloader", "peer_manager", "speed_measurer", "uploader", "announcer">>)
    /\ StoppedAfter("peer_manager", "downloader")
    /\ StoppedAfter("speed_measurer", "peer_manager")
    /\ StoppedAfter("uploader", "speed_measurer")
    /\ StoppedAfter("announcer", "uploader")
    /\ \A t \in Tasks :
          manager.task[t] \in {"cancelled", "done"} <=> StoppedAt(t) # 0

\* C19 witness: stop() has gone through all five components
C19_Witness ==
    /\ manager.stopped =
           <<"downloader", "peer_manager", "speed_measurer", "uploader", "announcer">>
    /\ manager.stop_pc = "wait"
    /\ \A t \in Tasks : manager.task[t] = "cancelled"

\* C20: stop() always returns: once it waits for the cancelled tasks, it
\* comes back, whether they end or not.
C20_StopReturns ==
    (manager.stop_pc = "wait") ~> (manager.stop_pc = "returned")

-----------------------------------------------------------------------------
(* Claims about the order of the handshake (SpecHandshake)                 *)

\* The types of what a step wrote to the session p, in order
RECURSIVE TypesWritten(_, _)
TypesWritten(p, o) ==
    IF o = << >> THEN << >>
    ELSE (IF Head(o)[1] = p THEN <<Head(o)[2].type>> ELSE << >>) \o TypesWritten(p, Tail(o))

Has(types, type) == \E k \in 1 .. Len(types) : types[k] = type

\* Nothing has been read yet, a read is awaited, every read has returned
BeforeReads == {"new"}
AwaitingRead == {"connect_protocol", "connect_info", "accept_protocol", "accept_info"}

\* The peer's header, info_hash and peer_id were received and have passed
\* the checks of the session and of the acceptor
PeerVerified(h) ==
    /\ h.pstrlen = HANDSHAKE_LEN
    /\ h.pstr = HANDSHAKE_NAME
    /\ h.peer_id \notin {"", OurPeerId}
    /\ h.expected # NoPeerId => h.peer_id = h.expected
    /\ h.info_hash = OurInfoHash

C29_Step ==
    \A p \in Peers :
        LET types == TypesWritten(p, out')
            pc == client[p].pc
        IN  /\ pc \in BeforeReads /\ types # << >> =>
                  /\ types[1] = "protocol"
                  /\ client'[p].pc \in AwaitingRead
                  /\ hs'[p].direction = "connect" => types = <<"protocol", "info">>
                  /\ hs'[p].direction = "accept" => types = <<"protocol">>
            /\ Has(types, "protocol") => pc \in BeforeReads
            /\ pc \in AwaitingRead => ~Has(types, "protocol") /\ ~Has(types, "info")
            /\ Has(types, "info") /\ hs'[p].direction = "accept" =>
                  /\ pc = "accepted"
                  /\ types[1] = "info"
                  /\ PeerVerified(hs[p])
            /\ Has(types, "bitfield") =>
                  /\ pc \in {"connect_info", "accepted"}
                  /\ types[Len(types)] = "bitfield"
                  /\ PeerVerified(hs'[p])

\* C29: on one connection the protocol header is the first thing written;
\* connect() writes our info_hash and peer_id right after it, before it
\* awaits any read; on an accepted connection they are written only by
\* confirm_info_hash, after the peer's header, info_hash and peer_id were
\* received; and no BITFIELD is written before the peer's handshake has
\* passed every check
C29_HandshakeOrder ==
    /\ [](\A p \in Peers : client[p].pc = "accepted" => hs[p].direction = "accept")
    /\ [][C29_Step]_vars

\* C29 witness: confirm_info_hash has just written our info_hash and
\* peer_id and then a BITFIELD on an accepted connection
C29_Witness ==
    /\ hs["p1"].direction = "accept"
    /\ client["p1"].pc = "run"
    /\ TypesWritten("p1", out) = <<"info", "bitfield">>

-----------------------------------------------------------------------------
(* Claims about frames that carry no message (SpecSession)                 *)

\* C28: a zero-length frame, and a frame within the length limit whose
\* message id is none of 0..9, changes nothing of the session, the download,
\* the counters or the store, writes nothing and raises nothing; the receive
\* loop is at its next frame
C28_KeepAliveAndUnknownIgnored ==
    [][\A p \in Peers : \A f \in OtherFrames :
          Received(p, f)
            /\ (f.length = 0 \/ (f.length <= MAX_MESSAGE_LENGTH /\ f.id \notin 0 .. 9)) =>
              /\ client'[p] =
                    [client[p] EXCEPT !.last = IF f.length = 0 THEN "keep-alive" ELSE "unknown"]
              /\ client'[p].pc = "run"
              /\ \A q \in Peers \ {p} : client'[q] = client[q]
              /\ download_info' = download_info
              /\ statistics' = statistics
              /\ file_structure' = file_structure
              /\ out' = << >>
              /\ err' = NoError
      ]_vars

\* C28 witness: an unchoked, interested peer has sent a frame with an unknown
\* id and the session goes on with its flags
C28_Witness ==
    /\ client["p1"].last = "unknown"
    /\ client["p1"].pc = "run"
    /\ ~client["p1"].peer_choking
    /\ client["p1"].peer_interested
    /\ err = NoError

-----------------------------------------------------------------------------
(* Claims about stopping a running manager (SpecManager)                   *)

\* C21: once stop() has returned, no announcer, uploader or speed-measurer
\* task of the torrent is running, at whatever point of run() stop() was
\* called; a task started after the return would be running then
C21_NoTaskAfterStop ==
    manager.stop_pc = "returned" => \A t \in Tasks : manager.task[t] # "running"

-----------------------------------------------------------------------------
(* Claims about the TorrentInfo (SpecManager)                              *)

URLsOf(tier) == {tier[k] : k \in 1 .. Len(tier)}

\* run() has passed _shuffle_announce_tiers
Shuffled == manager.pc \in {"announce", "sleep", "downloader_run", "done"}

\* C22 as stated: no operation of the manager changes the TorrentInfo, the
\* order of the URLs inside its announce tiers included
C22_TorrentInfoNeverMutated == manager.torrent_info = LoadedTorrentInfo

\* C22: no operation of the manager changes info_hash, piece_length, the file
\* entries, the piece digests or download_dir, nor the number and order of
\* the announce tiers, nor the URLs each tier holds (as many of each as were
\* loaded); only the order of the URLs inside a tier changes, when run()
\* shuffles it
C22_TorrentInfoKeptUpToTierOrder ==
    LET ti == manager.torrent_info IN
    /\ [ti EXCEPT !.announce_list = LoadedAnnounceList] = LoadedTorrentInfo
    /\ Len(ti.announce_list) = Len(LoadedAnnounceList)
    /\ \A k \in 1 .. Len(LoadedAnnounceList) :
          /\ Len(ti.announce_list[k]) = Len(LoadedAnnounceList[k])
          /\ \A url \in URLsOf(LoadedAnnounceList[k]) :
                Cardinality({j \in 1 .. Len(ti.announce_list[k]) : ti.announce_list[k][j] = url})
                  = Cardinality({j \in 1 .. Len(LoadedAnnounceList[k]) : LoadedAnnounceList[k][j] = url})

\* run() has shuffled the tiers and a tier came out in another order, and
\* stop() has run to its end
C22_Witness ==
    /\ Shuffled
    /\ manager.torrent_info.announce_list # LoadedAnnounceList
    /\ manager.accepted # {}
    /\ manager.stop_pc = "returned"

-----------------------------------------------------------------------------
(* Claims about the tracker's connection ids (SpecConnect)                 *)

\* The step handles the datagram d of its sender
Handled(d) ==
    tracker' = datagram_received(tracker, d, AddrOf(SenderOf(d, tracker.family)), 0)

\* The last step answered an announce
AnnounceAnswered(tr) ==
    /\ tr.sent # << >>
    /\ tr.sent[1].response.header.action = 1

\* The step handles the announce d and answers it
Answered(d) ==
    /\ AnnounceAnswered(tracker')
    /\ tracker'.sent[1].addr = AddrOf(SenderOf(d, tracker.family))
    /\ Handled(d)

\* C23: an announce is accepted only when its connection_id was produced by
\* a connect of this server less than 300 s before; one never produced, or
\* produced 300 s ago or more, is not accepted
C23_AcceptedConnectionIdIsFresh ==
    [][\A d \in ConnectAnnounces :
          Answered(d) =>
              /\ d.connection_id \in DOMAIN tracker.issued
              /\ tracker.now - tracker.issued[d.connection_id] < 300]_vars

\* An announce was accepted one second before its connection_id expired,
\* every other connection_id being expired or never produced
C23_Witness ==
    /\ AnnounceAnswered(tracker)
    /\ \E c \in DOMAIN tracker.issued :
          /\ tracker.now - tracker.issued[c] = 299
          /\ \A o \in DOMAIN tracker.issued \ {c} : tracker.now - tracker.issued[o] >= 300

-----------------------------------------------------------------------------
(* Claims about the tracker's answers (SpecTracker)                        *)

\* The peer records of the last answer
RecordsSent(tr) == {tr.sent[1].response.peers[k] : k \in 1 .. Len(tr.sent[1].response.peers)}

\* The peers registered for info_hash
Registered(tr, info_hash) ==
    IF info_hash \in DOMAIN tr.torrents
    THEN {tr.torrents[info_hash].peers[k] : k \in 1 .. Len(tr.torrents[info_hash].peers)}
    ELSE {}

\* C24: in the answer to an accepted announce that is not a stopped one,
\* every peer record is the record of a peer registered for the announced
\* info_hash at another (ip, port) than the announcer's (source host,
\* announced port), and no record is the record of the announcer's pair
C24_AnswerListsOthersOfTorrent ==
    [][\A d \in TrackerAnnounces :
          d.event # 3 /\ Answered(d) =>
              LET host == SenderOf(d, tracker.family).host IN
              \A r \in RecordsSent(tracker') :
                  /\ \E p \in Registered(tracker', d.info_hash) :
                        /\ r = compact_peer(p)
                        /\ ~(p.ip = host /\ p.port = d.port)
                  /\ r # compact_peer([ip |-> host, port |-> d.port])]_vars

\* The first client was answered with one record while its torrent has two
\* peers, itself one of them, and the other torrent has a peer too
C24_Witness ==
    /\ AnnounceAnswered(tracker)
    /\ tracker.sent[1].addr[2] = 40001
    /\ Len(tracker.sent[1].response.peers) = 1
    /\ Cardinality(Registered(tracker, "ih_a")) = 2
    /\ Registered(tracker, "ih_b") # {}

\* C26: an accepted announce with event = 3 is answered once, with no peer
\* records: only action 1, the transaction_id of the request, the interval
\* and the leecher and seeder counts of its torrent
C26_StoppedAnswerHasNoPeers ==
    [][\A d \in TrackerAnnounces :
          d.event = 3 /\ Answered(d) =>
              LET td == tracker'.torrents[d.info_hash] IN
              /\ Len(tracker'.sent) = 1
              /\ tracker'.sent[1].response.peers = << >>
              /\ tracker'.sent[1].response.header =
                    [ action |-> 1, transaction_id |-> d.transaction_id,
                      interval |-> td.interval, leechers |-> td.leechers_count,
                      seeders |-> td.seeders_count ]]_vars

\* The first client was answered without a record although its torrent has
\* another peer: with num_want 1 or -1 only a stopped announce does that
C26_Witness ==
    /\ AnnounceAnswered(tracker)
    /\ tracker.sent[1].addr[2] = 40001
    /\ tracker.sent[1].response.peers = << >>
    /\ Cardinality(Registered(tracker, "ih_a")) = 2
    /\ tracker.sent[1].response.header.leechers + tracker.sent[1].response.header.seeders >= 2

\* C27: an accepted stopped announce leaves the tracker in the state the
\* same announce with another event leaves it in (the torrents, their peers
\* and counts, the connection ids), its sender registered; the two answers
\* go to the same address with the same header and differ only in the peer
\* records
C27_StoppedRegistersLikeAnyAnnounce ==
    [][\A d \in TrackerAnnounces :
          d.event = 3 /\ Answered(d) =>
              LET sender == SenderOf(d, tracker.family)
                  other == datagram_received(tracker, [d EXCEPT !.event = 0],
                                             AddrOf(sender), 0)
              IN  /\ tracker'.torrents = other.torrents
                  /\ tracker'.connection_ids = other.connection_ids
                  /\ \E p \in Registered(tracker', d.info_hash) :
                        p.ip = sender.host /\ p.port = d.port
                  /\ Len(other.sent) = 1
                  /\ tracker'.sent[1].addr = other.sent[1].addr
                  /\ tracker'.sent[1].response.header = other.sent[1].response.header]_vars

\* The second client, a seeder beside another peer of its torrent, was
\* answered without a record: it has sent a stopped announce and is still
\* counted
C27_Witness ==
    /\ AnnounceAnswered(tracker)
    /\ tracker.sent[1].addr[2] = 40002
    /\ tracker.sent[1].response.peers = << >>
    /\ tracker.sent[1].response.header.seeders >= 1
    /\ tracker.sent[1].response.header.leechers >= 1
    /\ \E p \in Registered(tracker, "ih_a") : p.peer_id = 2 /\ p.is_seeder

-----------------------------------------------------------------------------
(* Claims about num_want (SpecSwarm)                                       *)

\* num_want of a datagram read as a signed 32-bit integer
SignedNumWant(d) ==
    LET value == UnpackU32(d.num_want) IN
    IF value.hi >= 32768 THEN (value.hi - 65536) * 65536 + value.lo
    ELSE value.hi * 65536 + value.lo

\* C25: an announce with num_want = -1 is answered with at most 200 peer
\* records however many peers are registered, and an announce with another
\* num_want n with at most n records
C25_NumWantLimitsRecords ==
    [][\A d \in SwarmAnnounces :
          Answered(d) =>
              Len(tracker'.sent[1].response.peers) <=
                  IF SignedNumWant(d) = -1 THEN 200 ELSE SignedNumWant(d)]_vars

-----------------------------------------------------------------------------
(* Claims about what the sessions are told (SpecAdvertise)                 *)

\* The pieces the session p was told of: the bits of the BITFIELD written
\* when it was set up (verification sends no HAVE)
Told(p) ==
    {i \in PieceIndices :
        hs[p].bitfield # << >> /\ BitOf(hs[p].bitfield[1].words, i)}

C30_Inv ==
    VerificationDone =>
        \A p \in Peers : client[p].connected => DownloadedPieces \subseteq Told(p)

C30_Step ==
    \A p \in Peers :
        ~client[p].connected /\ client'[p].connected /\ DownloadedPieces # {} =>
            /\ hs'[p].bitfield # << >>
            /\ \A i \in PieceIndices :
                  BitOf(hs'[p].bitfield[1].words, i) <=> download_info.pieces[i].downloaded

\* C30: once startup verification has finished, every connected session has
\* been told of every piece marked downloaded, the sessions taken over by
\* accept_client during verification included; and a session set up while
\* some piece is marked downloaded is sent a BITFIELD whose bit i is set
\* exactly when piece i is downloaded
C30_AccurateAdvertisement == []C30_Inv /\ [][C30_Step]_vars


-----------------------------------------------------------------------------
(* Claims about the session's view of its peer (SpecSession)               *)

OwnedBy(p) == {i \in PieceIndices : client[p].piece_owned[i]}

\* C31: in every state of a session that has its download info, piece_owned
\* has exactly piece_count entries, at most piece_count pieces are owned, and
\* piece_owned[i] is true iff the session's peer is among the owners of
\* piece i, whatever have and bitfield frames were received.
C31_OwnershipReciprocal ==
    \A p \in Peers :
        client[p].pc # "new" =>
            /\ DOMAIN client[p].piece_owned = 0 .. (piece_count - 1)
            /\ Cardinality(OwnedBy(p)) <= piece_count
            /\ \A i \in PieceIndices :
                  client[p].piece_owned[i] <=> (p \in download_info.pieces[i].owners)

\* C31 witness: after a have the peer owns piece 1 alone and is its owner
C31_Witness ==
    /\ client["p1"].last = "have"
    /\ client["p1"].pc = "run"
    /\ OwnedBy("p1") = {1}
    /\ "p1" \in download_info.pieces[1].owners
    /\ "p1" \notin download_info.pieces[0].owners


-----------------------------------------------------------------------------
(* Claims about the tracker's registry (SpecTracker)                       *)

\* The positions of the seeders in the peers of a torrent
SeederPositions(td) == {k \in 1 .. Len(td.peers) : td.peers[k].is_seeder}

\* C32: in every torrent of the tracker seeders_count is the number of
\* registered peers with is_seeder true, and seeders_count + leechers_count
\* is the number of registered peers, whatever announces were accepted
\* (the same peer_id from another port among them).
C32_CountsMatchRegistry ==
    \A h \in DOMAIN tracker.torrents :
        LET td == tracker.torrents[h] IN
        /\ td.seeders_count = Cardinality(SeederPositions(td))
        /\ td.seeders_count + td.leechers_count = Len(td.peers)

\* No two entries of peers have the same ip and port
UniquePairs(peers) ==
    \A j, k \in 1 .. Len(peers) :
        (peers[j].ip = peers[k].ip /\ peers[j].port = peers[k].port) => j = k

C33_Inv ==
    \A h \in DOMAIN tracker.torrents : UniquePairs(tracker.torrents[h].peers)

C33_Step ==
    \A d \in TrackerAnnounces :
        Answered(d) =>
            LET host == SenderOf(d, tracker.family).host
                before == IF d.info_hash \in DOMAIN tracker.torrents
                          THEN tracker.torrents[d.info_hash].peers ELSE << >>
                after == tracker'.torrents[d.info_hash].peers
            IN  \A k \in 1 .. Len(before) :
                    (before[k].ip = host /\ before[k].port = d.port) =>
                        /\ Len(after) = Len(before)
                        /\ after[k] = [before[k] EXCEPT !.is_seeder = (d.left = 0)]
                        /\ \A j \in 1 .. Len(before) : j # k => after[j] = before[j]

\* C33: in every torrent no two registered peers have the same (ip, port);
\* an accepted announce from a registered (ip, port) updates that entry in
\* place (its seeder flag; the entry keeps its place and key) and adds none.
C33_RegistryUniquePairs == []C33_Inv /\ [][C33_Step]_vars

\* C33 witness: on an IPv6 socket the client with peer_id 2 was answered for
\* the first torrent, whose only entry is the one peer_id 1 registered from
\* the same (ip, port)
C33_Witness ==
    /\ tracker.family = "inet6"
    /\ AnnounceAnswered(tracker)
    /\ tracker.sent[1].addr[2] = 40002
    /\ "ih_b" \notin DOMAIN tracker.torrents
    /\ \E seeder \in BOOLEAN :
          Registered(tracker, "ih_a") =
              {[peer_id |-> 1, ip |-> "::1", port |-> 6881, is_seeder |-> seeder]}


-----------------------------------------------------------------------------
(* Claims about rejected announces (SpecReject)                            *)

\* The connection_id of d was produced by a connect less than
\* expiration_duration seconds before the time of tr
FreshConnectionId(tr, d) ==
    /\ d.connection_id \in DOMAIN tr.issued
    /\ tr.now - tr.issued[d.connection_id] < expiration_duration

\* d is an announce the tracker rejects: cut short, or with a connection_id
\* that is unknown or expired
RejectedAnnounce(d) ==
    /\ d.action = 1
    /\ d.length < AnnounceLen \/ ~FreshConnectionId(tracker, d)

\* C34: an announce the tracker rejects (connection_id unknown or expired,
\* or the datagram too short to unpack) gets no response and changes nothing
\* of the tracker: its torrents, their peers and counts and its connection
\* ids are as before; a valid announce that follows is answered.
C34_RejectedAnnounceChangesNothing ==
    [][\A d \in ConnectAnnounces \cup CutAnnounces \cup OtherDatagrams :
          (RejectedAnnounce(d) /\ Handled(d)) =>
              /\ tracker'.sent = << >>
              /\ tracker' = [tracker EXCEPT !.sent = << >>]
              /\ \A v \in ConnectAnnounces :
                    FreshConnectionId(tracker', v) =>
                        AnnounceAnswered(
                            datagram_received(tracker', v,
                                AddrOf(SenderOf(v, tracker.family)), 0))]_vars

\* C34 witness: the clock has not moved, so every step was a datagram; the
\* last one got no response although a torrent is registered, and the
\* connection_id 12 was never produced
C34_Witness ==
    /\ tracker.ticks = 0
    /\ tracker.sent = << >>
    /\ "ih_a" \in DOMAIN tracker.torrents
    /\ 11 \in DOMAIN tracker.issued
    /\ 12 \notin DOMAIN tracker.issued


-----------------------------------------------------------------------------
(* Claims about uploads and the choke controller (SpecSession)             *)

\* C35: every piece frame of a session is written while its am_choking is
\* false, also when the choke controller sets am_choking while the answer
\* to a request waits for the read of the file store.
C35_NoPieceWhileChoking ==
    [][\A p \in Peers :
          Len(PiecesWritten(p, out')) # 0 =>
              (~client[p].am_choking /\ ~client'[p].am_choking)]_vars


-----------------------------------------------------------------------------
(* Claims about blocks we did not ask for (SpecStore)                      *)

\* C36: a piece frame received while am_interested is false is dropped
\* whole: no error is raised whatever its coordinates and length, nothing is
\* written to the file store, the blocks and flags of every piece and the
\* download counters of the session and of the statistics stay as they
\* are, and the receive loop goes on, whatever the state of the piece.
C36_UnwantedBlockDropped ==
    [][\A p \in Peers : \A f \in PieceFrames :
          (Received(p, f) /\ ~client[p].am_interested) =>
              /\ err' = NoError
              /\ out' = << >>
              /\ client'[p] = [client[p] EXCEPT !.last = "piece"]
              /\ client'[p].pc = "run"
              /\ file_structure' = file_structure
              /\ download_info' = download_info
              /\ statistics' = statistics]_vars

\* C36 witness: the second session, never interested, has received a piece
\* frame and goes on with nothing downloaded, while the first session has
\* written a block and a piece is being validated
C36_Witness ==
    /\ ~client["p2"].am_interested
    /\ client["p2"].last = "piece"
    /\ client["p2"].pc = "run"
    /\ client["p2"].downloaded = 0
    /\ file_structure.writes > 0
    /\ \E i \in PieceIndices : download_info.pieces[i].validating


-----------------------------------------------------------------------------
(* Claims about upload accounting (SpecSession)                            *)

\* The block bytes of the piece frames the step wrote to p
BlockBytesWritten(p, o) ==
    IF Len(PiecesWritten(p, o)) = 0 THEN 0 ELSE PiecesWritten(p, o)[1][2].words[3]

\* C37: the uploaded counter of a session and the uploaded total of the
\* statistics grow in every step by the number of block bytes the step
\* wrote in piece frames to the peer, so that they always equal the bytes
\* written, also when the file store returns fewer bytes than requested.
C37_UploadedIsBytesWritten ==
    [][\A p \in Peers :
          /\ Len(PiecesWritten(p, out')) <= 1
          /\ client'[p].uploaded = client[p].uploaded + BlockBytesWritten(p, out')
          /\ statistics'.total_uploaded =
                 statistics.total_uploaded + BlockBytesWritten(p, out')]_vars


-----------------------------------------------------------------------------
(* Claims about rejected bitfields (SpecSession)                           *)

\* A bitfield of the right length with a spare bit set
SpareBitBitfield(f) ==
    /\ PayloadLen(f) = CeilDiv(piece_count, 8)
    /\ \E i \in piece_count .. (8 * PayloadLen(f) - 1) : BitOf(f.head, i)

\* C38: a bitfield rejected for a set spare bit leaves piece_owned, the
\* owners of every piece and am_interested as they were before it, and no
\* interested frame is written for it.
C38_RejectedBitfieldChangesNothing ==
    [][\A p \in Peers : \A f \in BitfieldFrames :
          (Received(p, f) /\ SpareBitBitfield(f)) =>
              /\ err' # NoError
              /\ client'[p].piece_owned = client[p].piece_owned
              /\ OwnersOf(download_info') = OwnersOf(download_info)
              /\ client'[p].am_interested = client[p].am_interested
              /\ FramesWritten(p, out', {"interested"}) = << >>]_vars


-----------------------------------------------------------------------------
(* Claims about the flags outside the connected phase (SpecHandshake)      *)

FlagFrames == {"choke", "unchoke", "interested", "not_interested"}

\* C39: assigning am_choking or am_interested on a session that is not
\* connected (the handshake not completed, or after close()) raises
\* RuntimeError, leaves the session as it was and writes no frame; no
\* choke, unchoke, interested or not-interested frame is written by any
\* step of a session that is not connected.
C39_NoFlagChangeUnlessConnected ==
    [][\A p \in Peers :
          ~client[p].connected =>
              /\ \A v \in BOOLEAN :
                    (SetAmChoking(p, v) \/ SetAmInterested(p, v)) =>
                        /\ err' = "RuntimeError: Can't change state when the client isn't connected"
                        /\ client'[p] = client[p]
                        /\ out' = << >>
              /\ client'[p].am_choking = client[p].am_choking
              /\ client'[p].am_interested = client[p].am_interested
              /\ FramesWritten(p, out', FlagFrames) = << >>]_vars

\* C39 witness: an assignment on a session that was closed after its peer
\* had passed the checks of the handshake has raised, the flags being the
\* initial ones
C39_Witness ==
    /\ err = "RuntimeError: Can't change state when the client isn't connected"
    /\ ~client["p1"].connected
    /\ client["p1"].writer = "closed"
    /\ client["p1"].pc = "closed"
    /\ PeerVerified(hs["p1"])
    /\ client["p1"].am_choking /\ ~client["p1"].am_interested
    /\ out = << >>

====
